---------------------------- MODULE Spec2Model ----------------------------
(***************************************************************************)
(* Adaptive crop trajectory engine of the video clipping backend:          *)
(*   - HeavyTripodStabilizer      (backend/utils/stabilizer.py)            *)
(*   - AICroppingService          (backend/services/ai_cropping.py)        *)
(*       analyze_scene / _do_scene_analysis   (scene classification)       *)
(*       generate_crop_trajectory / _generate_trajectory                   *)
(*       _interpolate_crop_frames, _track_mode_crop, _general_mode_crop    *)
(*                                                                         *)
(* Number representation.  The Python code works on floats.  Positions and *)
(* velocities of the stabilizer are modelled in fixed point: one unit is   *)
(* 1/Scale pixel.  Products with the float factors 0.12 and 0.1 are taken  *)
(* exactly and truncated toward zero to the fixed-point grid.  Distances   *)
(* are compared through their squares, which is exact.  Confidences are    *)
(* hundredths (0.9 = 90).  Times are tenths of a second and frame rates    *)
(* hundredths of a frame per second, so int(t * fps) is exact.             *)
(***************************************************************************)
EXTENDS Integers, Sequences, FiniteSets, TLC

VARIABLES
    state,          \* HeavyTripodStabilizer.state : TrackingState
    initialized,    \* HeavyTripodStabilizer.initialized
    ret,            \* value returned by the last HeavyTripodStabilizer.update, << >> before any
    ticks,          \* number of update calls made so far
    svc,            \* AICroppingService detector fields
    gen,            \* the running / finished _generate_trajectory call
    ana,            \* the running / finished _do_scene_analysis call
    jq,             \* the JobQueue singleton (services/job_queue.py)
    workers,        \* JobQueue._workers: the worker tasks and what each runs
    jobs,           \* the Job objects by id, in jobs_db or held by process_job
    croppers,       \* the AICroppingService objects created by process_job
    calls,          \* calls on the queue: the last outcome, stop() in flight
    sched,          \* the ScheduleService singleton and the wall clock
    breaker,        \* a CircuitBreaker (utils/retry.py) and its wrapped calls
    ws,             \* the module state of routers/websocket.py and its clients
    retry,          \* a call of a retry_async wrapper (utils/retry.py)
    jobs_db,        \* the job ids that are keys of jobs_db
    clips_db,       \* clips_db of routers/jobs.py: the number of clips per key
    job_store       \* the jobs and clips tables of the JobStore database

vars == <<state, initialized, ret, ticks, svc, gen, ana,
          jq, workers, jobs, croppers, calls, sched, breaker, ws, retry,
          jobs_db, clips_db, job_store>>

\* the variables of the job queue, of the job pipeline and of the scheduler
serviceVars == <<jq, workers, jobs, croppers, calls, sched>>

\* the variables of the stabilizer and of the single cropping call
cropVars == <<state, initialized, ret, ticks, svc, gen, ana>>

\* the variables of the utilities
utilVars == <<breaker, ws, retry>>

\* the job cache next to jobs and the persistent store
storeVars == <<jobs_db, clips_db, job_store>>

None == "None"

(***************************************************************************)
(* The job services as constructed at import time                          *)
(***************************************************************************)

\* job ids (uuid4 strings of Job.id) and scheduled-post ids
JobIds == {"j1", "j2", "j3"}

PostIds == {"p1", "p2"}

\* JobQueue.__init__: asyncio.Queue(maxsize=10), no processor, not running.
\* _queue holds the entries put and not yet taken, oldest first.
JobQueueNew ==
    [ _queue |-> << >>, _processor |-> None, _running |-> FALSE,
      _worker_count |-> 1, _max_pending |-> 10,
      _queued_ids |-> {}, _active_ids |-> {} ]

\* a Job object that does not exist, a row that is not in the jobs table,
\* a key that is not in ScheduleService._posts
Absent == [status |-> "absent"]

\* clips_db has no such key
NoKey == 0 - 1

\* the database before its first write: no job row, no clip row
JobStoreNew ==
    [ jobs |-> [j \in JobIds |-> Absent], clips |-> [j \in JobIds |-> 0] ]

\* no call made yet, no stop() in flight, no create_job request between
\* its jobs_db insertion and its enqueue, no job id issued by uuid4, no
\* delete_job returned, the server process never restarted
NoCalls ==
    [ last |-> [op |-> None], stop |-> [pc |-> "idle", left |-> 0],
      creating |-> {}, issued |-> {}, deleted |-> {}, restarts |-> 0 ]

\* ScheduleService.__init__ with no schedule file on disk: no posts, the
\* scheduler loop not started, no _execute_post task of the execute-now
\* endpoint; now is the wall clock in minutes
ScheduleServiceNew ==
    [ _posts |-> [p \in PostIds |-> Absent], _running |-> FALSE,
      now |-> 0, loop |-> [pc |-> "stopped", due_posts |-> << >>],
      tasks |-> [p \in PostIds |-> "none"] ]

\* CircuitBreaker(failure_threshold, recovery_timeout): CLOSED, nothing
\* failed, no wrapped call in flight; now is time.time() in seconds and
\* last is what the last wrapper call did
CircuitBreaker(failure_threshold, recovery_timeout) ==
    [ failure_threshold |-> failure_threshold,
      recovery_timeout |-> recovery_timeout,
      _failure_count |-> 0, _last_failure_time |-> 0, _state |-> "CLOSED",
      now |-> 0, inflight |-> 0, last |-> [op |-> None] ]

\* the websocket clients that may connect
Clients == {"c1", "c2"}

\* a client before its connection: no queue in connection_queues, no
\* message taken by send_updates, nothing received
NoConnection ==
    [ status |-> "new", queue |-> << >>, holding |-> << >>,
      received |-> << >> ]

\* routers/websocket.py as imported: no connection, _broadcast_loop None,
\* no callback scheduled on the loop; serial counts the broadcasts
\* dispatched, and the payload of a broadcast is its serial
WebsocketNew ==
    [ _broadcast_loop |-> FALSE, clients |-> [c \in Clients |-> NoConnection],
      callbacks |-> << >>, serial |-> 0 ]

\* no call of a retry_async wrapper made yet
NoRetryCall == [pc |-> "idle"]

\* a breaker with the default parameters, the websocket module as
\* imported, no wrapper call
UtilsNew ==
    /\ breaker = CircuitBreaker(5, 30)
    /\ ws = WebsocketNew
    /\ retry = NoRetryCall

ServicesNew ==
    /\ jq = JobQueueNew
    /\ workers = << >>
    /\ jobs = [j \in JobIds |-> Absent]
    /\ jobs_db = {}
    /\ clips_db = [j \in JobIds |-> NoKey]
    /\ job_store = JobStoreNew
    /\ croppers = << >>
    /\ calls = NoCalls
    /\ sched = ScheduleServiceNew

(***************************************************************************)
(* Arithmetic helpers                                                      *)
(***************************************************************************)

\* fixed-point resolution of the float fields: units per pixel
Scale == 10

Abs(a) == IF a < 0 THEN -a ELSE a

Max2(a, b) == IF a >= b THEN a ELSE b

Min2(a, b) == IF a <= b THEN a ELSE b

\* Python int(a / b) for b > 0: truncation toward zero
TruncDiv(a, b) == IF a >= 0 THEN a \div b ELSE -((-a) \div b)

\* Python a // b (floor division)
FloorDiv(a, b) == a \div b

RECURSIVE SqrtSearch(_, _, _)
SqrtSearch(n, lo, hi) ==
    IF lo >= hi THEN lo
    ELSE LET mid == (lo + hi) \div 2
         IN  IF mid * mid >= n THEN SqrtSearch(n, lo, mid)
                               ELSE SqrtSearch(n, mid + 1, hi)

\* _sqrt on the fixed-point grid: the least r with r * r >= n
Sqrt(n) == SqrtSearch(n, 0, 46340)

(***************************************************************************)
(* HeavyTripodStabilizer                                                   *)
(***************************************************************************)

\* StabilizerConfig as constructed by AICroppingService.__init__;
\* acceleration_smoothing keeps its dataclass default 0.1
config ==
    [ smoothing_factor_pct       |-> 12,
      max_velocity               |-> 25 * Scale,
      lock_threshold             |-> 60 * Scale,
      deadzone                   |-> 25 * Scale,
      acceleration_smoothing_pct |-> 10 ]

\* capacity of position_history
HistoryCap == 300

\* TrackingState(current_x=x, current_y=y, target_x=x, target_y=y)
TrackingState(x, y) ==
    [ current_x |-> x, current_y |-> y,
      target_x  |-> x, target_y  |-> y,
      velocity_x |-> 0, velocity_y |-> 0,
      locked |-> TRUE,
      frames_since_detection |-> 0,
      position_history |-> << >> ]

\* a history that is never trimmed
UpdateHistoryNoEvict(st) ==
    [st EXCEPT !.position_history =
        Append(@, <<st.current_x, st.current_y>>)]

\* _update_history: append the current position, keep the last HistoryCap
UpdateHistory(st) ==
    LET h == Append(st.position_history, <<st.current_x, st.current_y>>)
    IN  [st EXCEPT !.position_history =
            IF Len(h) > HistoryCap THEN Tail(h) ELSE h]

\* reset(initial_x, initial_y), arguments in pixels
StabReset(x, y) == TrackingState(x * Scale, y * Scale)

\* a reset that only moves current and target and keeps the velocity, the
\* lock and the history the stabilizer held
ResetOnMut(st, x, y) ==
    [ st EXCEPT !.current_x = x * Scale, !.current_y = y * Scale,
                !.target_x = x * Scale, !.target_y = y * Scale ]

\* reset(initial_x, initial_y) called on a stabilizer holding st:
\* self.state is replaced by a new TrackingState
ResetOn(st, x, y) == StabReset(x, y)

\* "if confidence > 0.5": the detection replaces the target
ConfidentMut(confidence) == confidence >= 0
Confident(confidence) == confidence > 50

\* squared distance between target and current
Distance2(st) ==
    (st.target_x - st.current_x) * (st.target_x - st.current_x)
  + (st.target_y - st.current_y) * (st.target_y - st.current_y)

\* "if distance < self.config.deadzone"
InDeadzoneMut(d2) == 4 * d2 < config.deadzone * config.deadzone
InDeadzone(d2) == d2 < config.deadzone * config.deadzone

\* the comparison inverted: only a target nearer than lock_threshold unlocks
BeyondLockInverted(d2) == d2 < config.lock_threshold * config.lock_threshold

\* "if distance > self.config.lock_threshold"
BeyondLockMut(d2) == d2 >= config.deadzone * config.deadzone
BeyondLock(d2) == d2 > config.lock_threshold * config.lock_threshold

\* "Clamp velocity": scale the velocity vector down to max_velocity.
\* The magnitude is rounded up and the scaled components toward zero, so
\* the fixed-point grid never lengthens the clamped vector.
ClampVelocityMut(vx, vy) == <<vx, vy>>
ClampVelocity(vx, vy) ==
    LET m2 == vx * vx + vy * vy
    IN  IF m2 > config.max_velocity * config.max_velocity
        THEN LET velocity_magnitude == Sqrt(m2)
             IN  << TruncDiv(vx * config.max_velocity, velocity_magnitude),
                    TruncDiv(vy * config.max_velocity, velocity_magnitude) >>
        ELSE <<vx, vy>>

\* target update of update(): lines "Update target based on detection"
SetTarget(st, x, y, confidence) ==
    IF Confident(confidence)
    THEN [st EXCEPT !.target_x = x, !.target_y = y,
                    !.frames_since_detection = 0]
    ELSE [st EXCEPT !.frames_since_detection = @ + 1]

\* a re-lock that keeps the velocity
RelockMoving(st) == [st EXCEPT !.locked = TRUE]

\* the target is reached: lock again and stop
Relock(st) == [st EXCEPT !.locked = TRUE, !.velocity_x = 0, !.velocity_y = 0]

\* the unlocked part of update(): velocity smoothing, clamp, move, re-lock
MoveTowardTarget(st) ==
    LET dx == st.target_x - st.current_x
        dy == st.target_y - st.current_y
        desired_vx == TruncDiv(dx * config.smoothing_factor_pct, 100)
        desired_vy == TruncDiv(dy * config.smoothing_factor_pct, 100)
        vx == st.velocity_x
              + TruncDiv((desired_vx - st.velocity_x)
                         * config.acceleration_smoothing_pct, 100)
        vy == st.velocity_y
              + TruncDiv((desired_vy - st.velocity_y)
                         * config.acceleration_smoothing_pct, 100)
        v  == ClampVelocity(vx, vy)
        moved == [st EXCEPT !.velocity_x = v[1], !.velocity_y = v[2],
                            !.current_x = @ + v[1], !.current_y = @ + v[2]]
    IN  IF InDeadzone(Distance2(moved)) THEN Relock(moved) ELSE moved

\* update(detected_x, detected_y, confidence) on the stabilizer (st, init);
\* detected_x, detected_y in pixels.  Yields the new state, the new
\* initialized flag and the returned position.
StabUpdate(st, init, detected_x, detected_y, confidence) ==
    LET x == detected_x * Scale
        y == detected_y * Scale
    IN  IF ~init
        THEN [ state |-> TrackingState(x, y), initialized |-> TRUE,
               ret |-> <<x, y>> ]
        ELSE
        LET s1 == SetTarget(st, x, y, confidence)
            distance2 == Distance2(s1)
        IN  IF InDeadzone(distance2)
            THEN LET s2 == UpdateHistory(s1)
                 IN  [ state |-> s2, initialized |-> TRUE,
                       ret |-> <<s2.current_x, s2.current_y>> ]
            ELSE
            LET s2 == IF BeyondLock(distance2)
                      THEN [s1 EXCEPT !.locked = FALSE] ELSE s1
            IN  IF s2.locked
                THEN LET s3 == UpdateHistory(s2)
                     IN  [ state |-> s3, initialized |-> TRUE,
                           ret |-> <<s3.current_x, s3.current_y>> ]
                ELSE LET s3 == UpdateHistory(MoveTowardTarget(s2))
                     IN  [ state |-> s3, initialized |-> TRUE,
                           ret |-> <<s3.current_x, s3.current_y>> ]

\* the loop of get_smoothed_trajectory: update with each detection
\* <<x, y, conf>> of raw_detections in turn, collecting the returned
\* positions in smoothed
RECURSIVE SmoothLoop(_, _, _, _)
SmoothLoop(st, init, raw_detections, smoothed) ==
    IF raw_detections = << >>
    THEN smoothed
    ELSE LET d == Head(raw_detections)
             r == StabUpdate(st, init, d[1], d[2], d[3])
         IN  SmoothLoop(r.state, r.initialized, Tail(raw_detections),
                        Append(smoothed, r.ret))

\* reset(x, y) followed by update on each of raw_detections, on a
\* stabilizer holding st: the sequence of returned positions
ResetThenUpdate(st, x, y, raw_detections) ==
    SmoothLoop(ResetOn(st, x, y), TRUE, raw_detections, << >>)

\* get_smoothed_trajectory(raw_detections) on a stabilizer holding st
GetSmoothedTrajectory(st, raw_detections) ==
    ResetThenUpdate(st, 0, 0, raw_detections)

(***************************************************************************)
(* Stabilizer driven directly by a caller (reset / update in any order)    *)
(***************************************************************************)

\* bound on the number of update calls explored
MaxTicks == 4

\* positions (pixels) a caller resets the stabilizer to: the default (0, 0)
\* of reset() and the centre of a 1920 x 1080 frame
ResetPoints == { <<0, 0>>, <<960, 540>> }

\* detections (pixels) fed to update
DetectPoints == { <<1900, 1000>>, <<60, 30>>, <<990, 560>>, <<40, 20>> }

\* detection confidences fed to update (hundredths)
Confidences == { 50, 90 }

\* HeavyTripodStabilizer(config): TrackingState() defaults, not initialized
StabNew == TrackingState(0, 0)

IdleGen == [pc |-> "idle"]

IdleAna == [pc |-> "idle"]

NoModels == [face_detector |-> FALSE, yolo_model |-> FALSE, initialized |-> FALSE]

InitStab ==
    /\ state = StabNew
    /\ initialized = FALSE
    /\ ret = << >>
    /\ ticks = 0
    /\ svc = NoModels
    /\ gen = IdleGen
    /\ ana = IdleAna
    /\ ServicesNew
    /\ UtilsNew

\* stabilizer.reset(p)
Reset(p) ==
    /\ state' = ResetOn(state, p[1], p[2])
    /\ initialized' = TRUE
    /\ UNCHANGED <<ret, ticks, svc, gen, ana, serviceVars, utilVars, storeVars>>

\* stabilizer.update(p, confidence)
Update(p, confidence) ==
    /\ ticks < MaxTicks
    /\ LET r == StabUpdate(state, initialized, p[1], p[2], confidence)
       IN  /\ state' = r.state
           /\ initialized' = r.initialized
           /\ ret' = r.ret
    /\ ticks' = ticks + 1
    /\ UNCHANGED <<svc, gen, ana, serviceVars, utilVars, storeVars>>

NextStab ==
    \/ \E p \in ResetPoints : Reset(p)
    \/ \E p \in DetectPoints, c \in Confidences : Update(p, c)

SpecStab == InitStab /\ [][NextStab]_vars

(***************************************************************************)
(* Properties of HeavyTripodStabilizer.update                              *)
(***************************************************************************)

\* a step is an update call on a stabilizer that was already initialized
UpdateOfInitialized == ticks' = ticks + 1 /\ initialized

\* squared distance between the target after this call's target update
\* and the current position held before the call
EntryDistance2 ==
    (state'.target_x - state.current_x) * (state'.target_x - state.current_x)
  + (state'.target_y - state.current_y) * (state'.target_y - state.current_y)

\* squared length of the displacement of the current position in a step
Moved2 ==
    (state'.current_x - state.current_x) * (state'.current_x - state.current_x)
  + (state'.current_y - state.current_y) * (state'.current_y - state.current_y)

Speed2(st) == st.velocity_x * st.velocity_x + st.velocity_y * st.velocity_y

SamePosition ==
    /\ state'.current_x = state.current_x
    /\ state'.current_y = state.current_y

ReturnsOldPosition == ret' = <<state.current_x, state.current_y>>

\* C3: deadzone invariant.  In every update of an initialized stabilizer
\* whose distance between the (updated) target and the current position is
\* below the deadzone, the returned position is the position held before
\* the call and the stored position does not change, whatever the lock
\* state and the stored velocity are.
C3_DeadzoneNoMovement ==
    [][ (UpdateOfInitialized
         /\ EntryDistance2 < config.deadzone * config.deadzone)
        => (ReturnsOldPosition /\ SamePosition) ]_vars

\* C3 witness: an update has returned in the deadzone branch while the
\* stabilizer was unlocked and still carried a velocity
C3_Witness ==
    /\ initialized /\ ticks >= 2
    /\ ~state.locked
    /\ Speed2(state) > 0
    /\ Distance2(state) < config.deadzone * config.deadzone
    /\ ret = <<state.current_x, state.current_y>>

\* C4 as stated: after every update the stored velocity is at most
\* max_velocity and the position moved by at most max_velocity in the call.
C4_VelocityBoundEveryUpdate ==
    [][ (ticks' = ticks + 1)
        => /\ Speed2(state') <= config.max_velocity * config.max_velocity
           /\ Moved2 <= config.max_velocity * config.max_velocity ]_vars

\* C4 amended: after every update the stored velocity is at most
\* max_velocity, and every update of an initialized stabilizer moves the
\* position by at most max_velocity (the first update of a never-reset
\* stabilizer jumps to the detection).
C4_VelocityBound ==
    [][ (ticks' = ticks + 1)
        => /\ Speed2(state') <= config.max_velocity * config.max_velocity
           /\ (initialized
               => Moved2 <= config.max_velocity * config.max_velocity) ]_vars

\* C4 witness: the stabilizer is moving at (fixed-point rounding of) the
\* maximum velocity, i.e. the clamp has acted
C4_Witness ==
    /\ initialized /\ ticks >= 1 /\ ~state.locked
    /\ Speed2(state) > (config.max_velocity - 2) * (config.max_velocity - 2)
    /\ Speed2(state) <= config.max_velocity * config.max_velocity

\* C5: lock hysteresis, locked side.  An update of a locked stabilizer
\* that observes a distance of at most lock_threshold returns the current
\* position unchanged and leaves the stabilizer locked; so the position of
\* a locked stabilizer only changes in an update that observes a distance
\* above lock_threshold.
C5_LockedHolds ==
    [][ (UpdateOfInitialized /\ state.locked)
        => /\ (EntryDistance2 <= config.lock_threshold * config.lock_threshold
               => SamePosition /\ ReturnsOldPosition /\ state'.locked)
           /\ (~SamePosition
               => EntryDistance2 > config.lock_threshold * config.lock_threshold)
      ]_vars

\* C5 witness: a locked stabilizer stands off its target by a distance in
\* the band [deadzone, lock_threshold] after an update
C5_Witness ==
    /\ initialized /\ ticks >= 1 /\ state.locked
    /\ Distance2(state) >= config.deadzone * config.deadzone
    /\ Distance2(state) <= config.lock_threshold * config.lock_threshold
    /\ ret = <<state.current_x, state.current_y>>

\* C6 as stated: lock hysteresis, unlocked side.  Every update of a
\* stabilizer that is (or becomes in this call) unlocked moves the position,
\* until an update at which the distance to the target is below the
\* deadzone; that update re-locks (locked = true, velocity = 0).
C6_UnlockedMovesUntilRelock ==
    [][ (UpdateOfInitialized
         /\ (~state.locked
             \/ EntryDistance2 > config.lock_threshold * config.lock_threshold))
        => IF EntryDistance2 < config.deadzone * config.deadzone
           THEN state'.locked /\ Speed2(state') = 0
           ELSE ~SamePosition ]_vars

\* the moving half of C6 alone
C6_UnlockedMoves ==
    [][ (UpdateOfInitialized
         /\ (~state.locked
             \/ EntryDistance2 > config.lock_threshold * config.lock_threshold)
         /\ EntryDistance2 >= config.deadzone * config.deadzone)
        => ~SamePosition ]_vars

(***************************************************************************)
(* AICroppingService: detection                                            *)
(***************************************************************************)

TRACK == "track"

GENERAL == "general"

\* FaceDetection dataclass
FaceDetection(x, y, width, height, confidence) ==
    [ x |-> x, y |-> y, width |-> width, height |-> height,
      confidence |-> confidence ]

\* CropFrame dataclass
CropFrame(center_x, center_y, crop_width, crop_height, mode) ==
    [ center_x |-> center_x, center_y |-> center_y,
      crop_width |-> crop_width, crop_height |-> crop_height,
      mode |-> mode ]

\* A decoded frame is described by what the two backends would report on
\* it and by its mean gray level:
\*   mp   : MediaPipe detections, relative bounding boxes in thousandths
\*          of the frame size, score in hundredths
\*   yolo : YOLO person boxes (x1, y1, x2, y2) in pixels, conf in hundredths
MpBox(xmin, ymin, width, height, score) ==
    [ xmin |-> xmin, ymin |-> ymin, width |-> width, height |-> height,
      score |-> score ]

YoloBox(x1, y1, x2, y2, conf) ==
    [ x1 |-> x1, y1 |-> y1, x2 |-> x2, y2 |-> y2, conf |-> conf ]

\* MediaPipe branch of _detect_faces: relative box -> pixel FaceDetection
MpFaces(frame, width, height) ==
    [ k \in 1..Len(frame.mp) |->
        FaceDetection(TruncDiv(frame.mp[k].xmin * width, 1000),
                      TruncDiv(frame.mp[k].ymin * height, 1000),
                      TruncDiv(frame.mp[k].width * width, 1000),
                      TruncDiv(frame.mp[k].height * height, 1000),
                      frame.mp[k].score) ]

\* YOLO branch of _detect_faces: person boxes with conf > 0.5, face region
\* estimated as the upper quarter of the person box
RECURSIVE YoloFaces(_)
YoloFaces(boxes) ==
    IF boxes = << >> THEN << >>
    ELSE LET b == Head(boxes)
             rest == YoloFaces(Tail(boxes))
         IN  IF b.conf > 50
             THEN << FaceDetection(b.x1, b.y1, b.x2 - b.x1,
                                   FloorDiv(b.y2 - b.y1, 4), b.conf) >> \o rest
             ELSE rest

\* _detect_faces(frame) under the loaded backends s
DetectFaces(s, frame, width, height) ==
    LET faces == IF s.face_detector THEN MpFaces(frame, width, height)
                                    ELSE << >>
    IN  IF faces = << >> /\ s.yolo_model THEN YoloFaces(frame.yolo)
                                        ELSE faces

Area(face) == face.width * face.height

\* the scan of max(): a later face replaces the best one only when its
\* area is strictly greater
RECURSIVE MaxByArea(_, _)
MaxByArea(faces, best) ==
    IF faces = << >> THEN best
    ELSE MaxByArea(Tail(faces),
                   IF Area(Head(faces)) > Area(best) THEN Head(faces)
                   ELSE best)

\* max(faces, key=area) on a non-empty list: the first face of maximal
\* area
LargestFace(faces) == MaxByArea(Tail(faces), Head(faces))

(***************************************************************************)
(* AICroppingService: crop of one keyframe                                 *)
(***************************************************************************)

\* the 9:16 box derived from the height alone, never clamped to the width
TrackCropSizeMut(width, height) == <<TruncDiv(height * 9, 16), height>>

\* crop dimensions of _track_mode_crop (9:16, clamped to the frame)
TrackCropSize(width, height) ==
    LET crop_width == TruncDiv(height * 9, 16)
    IN  IF crop_width > width
        THEN <<width, TruncDiv(width * 16, 9)>>
        ELSE <<crop_width, height>>

\* a detection that reports the frame centre with confidence 0.9 when
\* nothing is detected
TrackDetectionSureOfCentre(s, frame, width, height) ==
    LET faces == DetectFaces(s, frame, width, height)
        face == LargestFace(faces)
    IN  IF faces # << >>
        THEN << face.x + FloorDiv(face.width, 2),
                face.y + FloorDiv(face.height, 2),
                face.confidence >>
        ELSE << FloorDiv(width, 2), FloorDiv(height, 2), 90 >>

\* the detection _track_mode_crop feeds to the stabilizer, as
\* <<detected_x, detected_y, confidence>>: the centre of the largest face,
\* or the frame centre at confidence 0.3 when nothing is detected
TrackDetection(s, frame, width, height) ==
    LET faces == DetectFaces(s, frame, width, height)
        face == LargestFace(faces)
    IN  IF faces # << >>
        THEN << face.x + FloorDiv(face.width, 2),
                face.y + FloorDiv(face.height, 2),
                face.confidence >>
        ELSE << FloorDiv(width, 2), FloorDiv(height, 2), 30 >>

\* _track_mode_crop(frame, width, height) on stabilizer (st, init):
\* yields the CropFrame and the stabilizer after its update
TrackModeCrop(s, frame, width, height, st, init) ==
    LET d == TrackDetection(s, frame, width, height)
        r == StabUpdate(st, init, d[1], d[2], d[3])
        size == TrackCropSize(width, height)
    IN  [ crop |-> CropFrame(TruncDiv(r.ret[1], Scale),
                             TruncDiv(r.ret[2], Scale),
                             size[1], size[2], TRACK),
          stab |-> r ]

\* a GENERAL crop cut to the 9:16 box of TRACK mode
GeneralModeCropNarrow(width, height) ==
    CropFrame(FloorDiv(width, 2), FloorDiv(height, 2),
              TrackCropSize(width, height)[1],
              TrackCropSize(width, height)[2], GENERAL)

\* _general_mode_crop(width, height)
GeneralModeCrop(width, height) ==
    CropFrame(FloorDiv(width, 2), FloorDiv(height, 2), width, height, GENERAL)

(***************************************************************************)
(* AICroppingService._interpolate_crop_frames                              *)
(***************************************************************************)

\* a search whose else clause brackets by the last two keyframes, so that
\* frames after the last keyframe are extrapolated
RECURSIVE BracketSearchMut(_, _, _, _)
BracketSearchMut(indices, frame_idx, i, prev_key_idx) ==
    IF i > Len(indices)
    THEN <<Max2(1, Len(indices) - 1), Len(indices)>>
    ELSE LET ki == indices[i]
             p == IF ki <= frame_idx THEN i ELSE prev_key_idx
         IN  IF ki >= frame_idx
             THEN <<p, i>>
             ELSE BracketSearchMut(indices, frame_idx, i + 1, p)

\* the body of "for i, ki in enumerate(indices)" at position i, on the
\* loop state s = <<prev_key_idx, next_key_idx>>; next_key_idx is 0 until
\* the loop leaves by break (positions are 1-based here)
BracketIter(indices, frame_idx, i, s) ==
    LET ki == indices[i]
        p == IF ki <= frame_idx THEN i ELSE s[1]
    IN  IF ki >= frame_idx THEN <<p, i>> ELSE <<p, 0>>

\* the iterations at positions lo..hi in order, none after a break: those
\* of the lower half, then those of the upper half
RECURSIVE BracketScan(_, _, _, _, _)
BracketScan(indices, frame_idx, lo, hi, s) ==
    IF s[2] # 0 \/ lo > hi THEN s
    ELSE IF lo = hi THEN BracketIter(indices, frame_idx, lo, s)
    ELSE LET mid == (lo + hi) \div 2
             lower == BracketScan(indices, frame_idx, lo, mid, s)
         IN  BracketScan(indices, frame_idx, mid + 1, hi, lower)

\* The "for i, ki in enumerate(indices) ... else" search for the keyframes
\* around frame_idx, from position i on.  Positions are 1-based here;
\* prev_key_idx and next_key_idx both start at the first keyframe.
BracketSearch(indices, frame_idx, i, prev_key_idx) ==
    LET s == BracketScan(indices, frame_idx, i, Len(indices),
                         <<prev_key_idx, 0>>)
    IN  IF s[2] # 0
        THEN s                                      \* break
        ELSE <<s[1], Len(indices)>>                 \* the loop's else clause

\* int(prev + t * (next - prev)) with t = num / den, taken exactly
LerpMut(prev, next, num, den) == prev + (num \div den) * (next - prev)
Lerp(prev, next, num, den) == TruncDiv(prev * den + num * (next - prev), den)

\* the CropFrame of output index frame_idx
InterpolateAt(keyframes, indices, frame_idx, mode) ==
    LET b == BracketSearch(indices, frame_idx, 1, 1)
        prev_key_idx == b[1]
        next_key_idx == b[2]
    IN  IF prev_key_idx = next_key_idx
           \/ indices[next_key_idx] = indices[prev_key_idx]
        THEN keyframes[prev_key_idx]
        ELSE LET num == frame_idx - indices[prev_key_idx]
                 den == indices[next_key_idx] - indices[prev_key_idx]
                 prev_crop == keyframes[prev_key_idx]
                 next_crop == keyframes[next_key_idx]
             IN  CropFrame(
                   Lerp(prev_crop.center_x, next_crop.center_x, num, den),
                   Lerp(prev_crop.center_y, next_crop.center_y, num, den),
                   prev_crop.crop_width, prev_crop.crop_height, mode)

\* range(total_frames) as the output positions 1..n
OutputRangeMut(indices, total_frames) == 1..(indices[Len(indices)] + 1)
OutputRange(indices, total_frames) == 1..Max2(total_frames, 0)

\* "if not keyframes: return []"
NoKeyframesResultMut(total_frames) ==
    [ f \in 1..Max2(total_frames, 0) |-> None ]
NoKeyframesResult(total_frames) == << >>

\* _interpolate_crop_frames(keyframes, indices, total_frames, mode);
\* element f + 1 of the result is the CropFrame of output index f
InterpolateCropFrames(keyframes, indices, total_frames, mode) ==
    IF keyframes = << >>
    THEN NoKeyframesResult(total_frames)
    ELSE [ f \in OutputRange(indices, total_frames) |->
             InterpolateAt(keyframes, indices, f - 1, mode) ]

(***************************************************************************)
(* AICroppingService._generate_trajectory                                  *)
(***************************************************************************)

\* a video segment handed to the service: fps in hundredths of a frame per
\* second, times in tenths of a second, size in pixels
Segment(fps, start_time, end_time, width, height) ==
    [ fps |-> fps, start_time |-> start_time, end_time |-> end_time,
      width |-> width, height |-> height ]

\* the segments explored: 30 fps (skip 3, output frames after the last
\* keyframe), 25 fps starting inside the video (skip 2), 10 fps (skip 1),
\* a reversed range, and a capture that could not be opened (fps 0, size 0)
Segments ==
    { Segment(3000, 0, 3, 1920, 1080),
      Segment(2500, 1, 4, 1920, 1080),
      Segment(1000, 0, 2, 400, 854),
      Segment(3000, 3, 1, 1920, 1080),
      Segment(0, 0, 3, 0, 0) }

\* pixel person box from thousandths of the frame size
PersonBox(x1, y1, x2, y2, conf, width, height) ==
    YoloBox(TruncDiv(x1 * width, 1000), TruncDiv(y1 * height, 1000),
            TruncDiv(x2 * width, 1000), TruncDiv(y2 * height, 1000), conf)

\* the frames a read can deliver: nobody, one person far right, two
\* persons (a small one near the centre first), three persons
FrameSet(width, height) ==
    { [ mp |-> << >>, yolo |-> << >>, gray |-> 10 ],
      [ mp |-> << MpBox(850, 300, 100, 200, 90) >>,
        yolo |-> << PersonBox(830, 280, 965, 980, 80, width, height) >>,
        gray |-> 20 ],
      [ mp |-> << MpBox(480, 450, 60, 120, 70), MpBox(850, 300, 100, 200, 90) >>,
        yolo |-> << PersonBox(830, 280, 965, 980, 80, width, height),
                    PersonBox(50, 100, 150, 900, 40, width, height) >>,
        gray |-> 90 ],
      [ mp |-> << MpBox(850, 300, 100, 200, 90), MpBox(480, 450, 60, 120, 70),
                  MpBox(100, 300, 80, 150, 60) >>,
        yolo |-> << PersonBox(830, 280, 965, 980, 80, width, height),
                    PersonBox(450, 400, 560, 990, 70, width, height),
                    PersonBox(80, 280, 200, 950, 60, width, height) >>,
        gray |-> 40 ] }

\* which detection backends _ensure_initialized managed to load
ModelStates ==
    { [face_detector |-> fd, yolo_model |-> ym, initialized |-> TRUE] :
        fd \in BOOLEAN, ym \in BOOLEAN }

\* a progress report (percent as the exact fraction num / den)
Report(num, den) == [num |-> num, den |-> den]

\* int(t * fps) for t in tenths of a second, fps in hundredths
FrameNumber(t, fps) == TruncDiv(t * fps, 1000)

\* Python round(num / den) for num >= 0: to the nearest integer, a tie to
\* the even one
RoundHalfEven(num, den) ==
    LET q == num \div den
        r == num % den
    IN  IF 2 * r < den THEN q
        ELSE IF 2 * r > den THEN q + 1
        ELSE IF q % 2 = 0 THEN q ELSE q + 1

\* max(1, round(fps / 10))
SkipFactorRounded(fps) == Max2(1, RoundHalfEven(fps, 1000))

\* skip_factor = max(1, int(fps / 10))
SkipFactor(fps) == Max2(1, TruncDiv(fps, 1000))

\* a report at every fifth keyframe
ReportDueEveryFifth(count) == count % 5 = 0

\* "len(keyframe_crops) % 10 == 0"
ReportDue(count) == count % 10 = 0

\* the tail of _generate_trajectory after the keyframe loop: release,
\* interpolate, final progress report, return
Finish(g) ==
    [ g EXCEPT
        !.pc = "done",
        !.crop_frames = InterpolateCropFrames(g.keyframe_crops,
                            g.keyframe_indices, g.total_frames, g.mode),
        !.progress = IF g.progress_callback
                     THEN Append(@, Report(100, 1)) ELSE @ ]

\* generate_crop_trajectory(video, start_time, end_time, scene_analysis,
\* progress_callback) up to the first frame read of the keyframe loop
GenStart(seg, mode, progress_callback) ==
    /\ gen.pc = "idle"
    /\ LET start_frame == FrameNumber(seg.start_time, seg.fps)
           end_frame == FrameNumber(seg.end_time, seg.fps)
           total_frames == end_frame - start_frame
           g == [ pc |-> "loop", fps |-> seg.fps,
                  frame_width |-> seg.width, frame_height |-> seg.height,
                  start_frame |-> start_frame, total_frames |-> total_frames,
                  skip_factor |-> SkipFactor(seg.fps),
                  mode |-> mode,
                  progress_callback |-> progress_callback,
                  i |-> 0, read |-> None, detect_calls |-> 0,
                  keyframe_crops |-> << >>, keyframe_indices |-> << >>,
                  progress |-> IF progress_callback
                               THEN << Report(0, 1) >> ELSE << >>,
                  crop_frames |-> None ]
       IN  /\ gen' = IF total_frames > 0 THEN g ELSE Finish(g)
           /\ state' = StabReset(FloorDiv(seg.width, 2), FloorDiv(seg.height, 2))
           /\ initialized' = TRUE
    /\ UNCHANGED <<ret, ticks, svc, ana, serviceVars, utilVars, storeVars>>

\* one iteration of the keyframe loop whose read succeeds with `frame`;
\* detect_calls counts the calls of _detect_faces
GenKeyframe(frame) ==
    /\ gen.pc = "loop"
    /\ LET t == TrackModeCrop(svc, frame, gen.frame_width, gen.frame_height,
                              state, initialized)
           crop == IF gen.mode = TRACK THEN t.crop
                   ELSE GeneralModeCrop(gen.frame_width, gen.frame_height)
           crops == Append(gen.keyframe_crops, crop)
           g == [ gen EXCEPT
                    !.read = "ok",
                    !.detect_calls = IF gen.mode = TRACK THEN @ + 1 ELSE @,
                    !.keyframe_crops = crops,
                    !.keyframe_indices = Append(@, gen.i),
                    !.progress =
                        IF gen.progress_callback /\ ReportDue(Len(crops))
                        THEN Append(@, Report(gen.i * 100, gen.total_frames))
                        ELSE @,
                    !.i = gen.i + gen.skip_factor ]
       IN  /\ gen' = IF g.i < g.total_frames THEN g ELSE Finish(g)
           /\ IF gen.mode = TRACK
              THEN /\ state' = t.stab.state
                   /\ initialized' = t.stab.initialized
                   /\ ret' = t.stab.ret
                   /\ ticks' = ticks + 1
              ELSE UNCHANGED <<state, initialized, ret, ticks>>
    /\ UNCHANGED <<svc, ana, serviceVars, utilVars, storeVars>>

\* a failed read that only skips its sample: continue with the next index
GenReadFailSkips ==
    /\ gen.pc = "loop"
    /\ LET g == [gen EXCEPT !.read = "failed", !.i = gen.i + gen.skip_factor]
       IN  gen' = IF g.i < g.total_frames THEN g ELSE Finish(g)
    /\ UNCHANGED <<state, initialized, ret, ticks, svc, ana, serviceVars, utilVars, storeVars>>

\* an iteration of the keyframe loop whose read fails: break, then the
\* tail of the function
GenReadFail ==
    /\ gen.pc = "loop"
    /\ gen' = Finish([gen EXCEPT !.read = "failed"])
    /\ UNCHANGED <<state, initialized, ret, ticks, svc, ana, serviceVars, utilVars, storeVars>>

InitGen ==
    /\ state = StabNew
    /\ initialized = FALSE
    /\ ret = << >>
    /\ ticks = 0
    /\ svc \in ModelStates
    /\ gen = IdleGen
    /\ ana = IdleAna
    /\ ServicesNew
    /\ UtilsNew

NextGen ==
    \/ \E seg \in Segments, mode \in {TRACK, GENERAL}, cb \in BOOLEAN :
          GenStart(seg, mode, cb)
    \/ /\ gen.pc = "loop"
       /\ \E frame \in FrameSet(gen.frame_width, gen.frame_height) :
             GenKeyframe(frame)
    \/ GenReadFail

SpecGen == InitGen /\ [][NextGen]_vars

(***************************************************************************)
(* Properties of _generate_trajectory / _interpolate_crop_frames           *)
(***************************************************************************)

\* number of sample positions range(0, total_frames, skip_factor) visits
SamplePositions(g) ==
    IF g.total_frames <= 0 THEN 0
    ELSE ((g.total_frames - 1) \div g.skip_factor) + 1

\* C1 as stated: whatever reads fail, the returned sequence has exactly
\* total_frames = int(end * fps) - int(start * fps) entries, one per output
\* index in [0, total_frames) (none when the range is empty).
C1_LengthAlwaysTotalFrames ==
    gen.pc = "done" => Len(gen.crop_frames) = Max2(gen.total_frames, 0)

\* C1 amended: the returned sequence has exactly total_frames entries
\* whenever at least one keyframe was recorded, whatever later read fails;
\* when no keyframe was recorded (the first read fails, or total_frames
\* <= 0) it is empty.
C1_LengthTotalFramesOrEmpty ==
    gen.pc = "done" =>
        Len(gen.crop_frames) =
            IF gen.keyframe_crops # << >> THEN gen.total_frames ELSE 0

\* C1 witness: a read failed in the middle of the keyframe loop and the
\* result still has one entry per output index, beyond the last keyframe
C1_Witness ==
    /\ gen.pc = "done"
    /\ gen.read = "failed"
    /\ gen.keyframe_crops # << >>
    /\ Len(gen.keyframe_crops) < SamplePositions(gen)
    /\ Len(gen.crop_frames) = gen.total_frames
    /\ gen.total_frames > gen.keyframe_indices[Len(gen.keyframe_indices)] + 1

\* C2: when the very first keyframe read fails, so that no keyframe is
\* recorded, the call ends at once and returns the empty sequence.
C2_NoFrameGivesEmpty ==
    (gen.pc # "idle" /\ gen.read = "failed" /\ gen.keyframe_crops = << >>)
        => (gen.pc = "done" /\ gen.crop_frames = << >>)

\* C2 witness: a segment with output frames to produce whose first read
\* failed
C2_Witness ==
    /\ gen.pc = "done"
    /\ gen.total_frames > 0
    /\ gen.read = "failed"
    /\ gen.keyframe_indices = << >>
    /\ gen.crop_frames = << >>

\* output index f lies strictly between the consecutive keyframes k, k + 1
Between(g, k, f) ==
    /\ k \in 1..(Len(g.keyframe_indices) - 1)
    /\ g.keyframe_indices[k] < f
    /\ f < g.keyframe_indices[k + 1]

\* v lies between a and b (inclusive), in either order
Within(v, a, b) == (a <= v /\ v <= b) \/ (b <= v /\ v <= a)

\* the linear interpolation of coordinate a -> b at f between keyframe
\* indices ka < f < kb, truncated toward zero
Interpolated(a, b, ka, kb, f) ==
    LET exact_num == a * (kb - ka) + (f - ka) * (b - a)
    IN  IF exact_num >= 0 THEN exact_num \div (kb - ka)
                          ELSE -((-exact_num) \div (kb - ka))

\* C10: for every output index f strictly between two consecutive recorded
\* keyframes the centre is the truncated linear interpolation of the two
\* keyframe centres (so it lies between them), and crop_width, crop_height
\* and the strategy are those of the preceding keyframe.
C10_InterpolationBetweenKeyframes ==
    gen.pc = "done" =>
      \A k \in 1..Len(gen.keyframe_indices) :
        \A f \in 0..(gen.total_frames - 1) :
          Between(gen, k, f) =>
            LET out == gen.crop_frames[f + 1]
                prev == gen.keyframe_crops[k]
                next == gen.keyframe_crops[k + 1]
                ka == gen.keyframe_indices[k]
                kb == gen.keyframe_indices[k + 1]
            IN  /\ out.center_x =
                     Interpolated(prev.center_x, next.center_x, ka, kb, f)
                /\ out.center_y =
                     Interpolated(prev.center_y, next.center_y, ka, kb, f)
                /\ Within(out.center_x, prev.center_x, next.center_x)
                /\ Within(out.center_y, prev.center_y, next.center_y)
                /\ out.crop_width = prev.crop_width
                /\ out.crop_height = prev.crop_height
                /\ out.mode = prev.mode

\* C10 witness: an output index strictly between two keyframes with
\* different centres whose interpolated centre is strictly between them
C10_Witness ==
    /\ gen.pc = "done"
    /\ gen.crop_frames # << >>
    /\ \E k \in 1..Len(gen.keyframe_indices) :
         \E f \in 0..(gen.total_frames - 1) :
           /\ Between(gen, k, f)
           /\ gen.keyframe_crops[k].center_x < gen.crop_frames[f + 1].center_x
           /\ gen.crop_frames[f + 1].center_x < gen.keyframe_crops[k + 1].center_x
           /\ gen.keyframe_crops[k].center_y # gen.keyframe_crops[k + 1].center_y

(***************************************************************************)
(* AICroppingService.analyze_scene / _do_scene_analysis                    *)
(***************************************************************************)

\* bound on the sample_frames argument explored
MaxSamples == 3

\* frame.shape of the frames of the video analysed: (width, height)
AnalysisFrameSize == <<1920, 1080>>

RECURSIVE SumSeq(_)
SumSeq(q) == IF q = << >> THEN 0 ELSE Head(q) + SumSeq(Tail(q))

RECURSIVE MaxSeq(_)
MaxSeq(q) == IF q = << >> THEN 0 ELSE Max2(Head(q), MaxSeq(Tail(q)))

\* np.mean(q) if q else 0, as the exact fraction num / den
Mean(q) == IF q = << >> THEN [num |-> 0, den |-> 1]
                        ELSE [num |-> SumSeq(q), den |-> Len(q)]

\* _calculate_movement on two frames of uniform gray level:
\* min(100, mean(absdiff) * 2)
CalculateMovement(prev_gray, curr_gray) ==
    Min2(100, Abs(prev_gray - curr_gray) * 2)

\* "if avg_faces <= 1.5 and max_faces <= 2"
IsTrackMut(avg_faces, max_faces) ==
    2 * avg_faces.num <= 3 * avg_faces.den \/ max_faces <= 2
IsTrack(avg_faces, max_faces) ==
    2 * avg_faces.num <= 3 * avg_faces.den /\ max_faces <= 2

\* area * confidence of a detection
Score(face) == face.width * face.height * face.confidence

\* the list `scored` with item put in by a descending sort that moves
\* an item before the items of equal score
RECURSIVE InsertBeforeEqual(_, _)
InsertBeforeEqual(scored, item) ==
    IF scored = << >> THEN << item >>
    ELSE IF Head(scored).score > item.score
    THEN << Head(scored) >> \o InsertBeforeEqual(Tail(scored), item)
    ELSE << item >> \o scored

\* scored.sort(key=score, reverse=True) one item at a time: the sort is
\* stable, an item goes after the items of greater or equal score
RECURSIVE InsertDescending(_, _)
InsertDescending(scored, item) ==
    IF scored = << >> THEN << item >>
    ELSE IF Head(scored).score >= item.score
    THEN << Head(scored) >> \o InsertDescending(Tail(scored), item)
    ELSE << item >> \o scored

\* the (score, face) list of the first n detections, sorted
RECURSIVE SortedUnstable(_, _)
SortedUnstable(detections, n) ==
    IF n = 0 THEN << >>
    ELSE InsertBeforeEqual(SortedUnstable(detections, n - 1),
                           [ score |-> Score(detections[n]),
                             face |-> detections[n] ])

RECURSIVE SortedByScore(_, _)
SortedByScore(detections, n) ==
    IF n = 0 THEN << >>
    ELSE InsertDescending(SortedByScore(detections, n - 1),
                          [ score |-> Score(detections[n]),
                            face |-> detections[n] ])

\* a primary face taken from an unstable sort
FindPrimaryFaceUnstable(detections) ==
    IF detections = << >> THEN None
    ELSE SortedUnstable(detections, Len(detections))[1].face

\* _find_primary_face: score every detection, sort descending, take the
\* first
FindPrimaryFace(detections) ==
    IF detections = << >> THEN None
    ELSE SortedByScore(detections, Len(detections))[1].face

\* q[-10:]
LastTen(q) == IF Len(q) <= 10 THEN q ELSE SubSeq(q, Len(q) - 9, Len(q))

\* the part of _do_scene_analysis after the sampling loop
SceneAnalysis(a) ==
    LET avg_faces == Mean(a.face_counts)
        max_faces == MaxSeq(a.face_counts)
        avg_movement == Mean(a.movement_scores)
        track == IsTrack(avg_faces, max_faces)
    IN  [ mode |-> IF track THEN TRACK ELSE GENERAL,
          face_count |-> TruncDiv(avg_faces.num, avg_faces.den),
          primary_face |-> IF a.all_detections # << >>
                           THEN FindPrimaryFace(a.all_detections) ELSE None,
          all_faces |-> LastTen(a.all_detections),
          movement_score |-> avg_movement,
          reason |-> IF track THEN "Single subject detected"
                              ELSE "Multiple subjects - using blur layout" ]

\* leave the sampling loop once range(sample_frames) is exhausted
AnaAdvance(a) ==
    IF a.i < a.sample_frames THEN a
    ELSE [a EXCEPT !.pc = "done", !.result = SceneAnalysis(a)]

\* _ensure_initialized: the first call tries to load both backends, each
\* import may fail; later calls keep what was loaded
EnsureInitialized(s, loaded) == IF s.initialized THEN s ELSE loaded

\* analyze_scene(video, start, end, sample_frames) up to the first read
AnaStart(sample_frames, loaded) ==
    /\ ana.pc = "idle"
    /\ svc' = EnsureInitialized(svc, loaded)
    /\ LET a == [ pc |-> "sampling", sample_frames |-> sample_frames,
                  i |-> 0, reads |-> << >>,
                  all_detections |-> << >>, face_counts |-> << >>,
                  prev_frame |-> << >>, movement_scores |-> << >>,
                  result |-> None ]
       IN  ana' = IF sample_frames = 0
                  THEN [a EXCEPT !.pc = "raised",
                                 !.result = "ZeroDivisionError"]
                  ELSE AnaAdvance(a)
    /\ UNCHANGED <<state, initialized, ret, ticks, gen, serviceVars, utilVars, storeVars>>

\* one pass of the sampling loop whose read succeeds with `frame`;
\* prev_frame is << >> for None and << gray >> for a kept frame, reads
\* holds the ret of every cap.read() so far
AnaSample(frame) ==
    /\ ana.pc = "sampling"
    /\ LET faces == DetectFaces(svc, frame, AnalysisFrameSize[1],
                                AnalysisFrameSize[2])
       IN  ana' = AnaAdvance(
             [ ana EXCEPT
                 !.all_detections = @ \o faces,
                 !.face_counts = Append(@, Len(faces)),
                 !.movement_scores =
                     IF ana.prev_frame # << >>
                     THEN Append(@, CalculateMovement(ana.prev_frame[1],
                                                      frame.gray))
                     ELSE @,
                 !.prev_frame = << frame.gray >>,
                 !.reads = Append(@, "ok"),
                 !.i = @ + 1 ])
    /\ UNCHANGED <<state, initialized, ret, ticks, svc, gen, serviceVars, utilVars, storeVars>>

\* a failed read that is counted as a sample showing nobody
AnaReadFailCounts ==
    /\ ana.pc = "sampling"
    /\ ana' = AnaAdvance([ana EXCEPT !.reads = Append(@, "failed"),
                                     !.face_counts = Append(@, 0),
                                     !.i = @ + 1])
    /\ UNCHANGED <<state, initialized, ret, ticks, svc, gen, serviceVars, utilVars, storeVars>>

\* one pass of the sampling loop whose read fails: continue
AnaReadFail ==
    /\ ana.pc = "sampling"
    /\ ana' = AnaAdvance([ana EXCEPT !.reads = Append(@, "failed"),
                                     !.i = @ + 1])
    /\ UNCHANGED <<state, initialized, ret, ticks, svc, gen, serviceVars, utilVars, storeVars>>

InitClassify ==
    /\ state = StabNew
    /\ initialized = FALSE
    /\ ret = << >>
    /\ ticks = 0
    /\ svc = NoModels
    /\ gen = IdleGen
    /\ ana = IdleAna
    /\ ServicesNew
    /\ UtilsNew

NextClassify ==
    \/ \E n \in 0..MaxSamples, loaded \in ModelStates : AnaStart(n, loaded)
    \/ \E frame \in FrameSet(AnalysisFrameSize[1], AnalysisFrameSize[2]) : AnaSample(frame)
    \/ AnaReadFail

SpecClassify == InitClassify /\ [][NextClassify]_vars

(***************************************************************************)
(* Properties of scene classification and detection                        *)
(***************************************************************************)

\* C7: mode threshold.  For every non-empty list of per-sample detection
\* counts, classify returns TRACK exactly when the average count is at
\* most 1.5 and every count is at most 2, and GENERAL otherwise.
C7_ModeThreshold ==
    (ana.pc = "done" /\ ana.face_counts # << >>) =>
        LET n == Len(ana.face_counts)
            total == SumSeq(ana.face_counts)
            isTrack == /\ 2 * total <= 3 * n
                       /\ \A k \in 1..n : ana.face_counts[k] <= 2
        IN  /\ isTrack => ana.result.mode = TRACK
            /\ ~isTrack => ana.result.mode = GENERAL

\* C7 witness: average at most 1.5 but a sample with 3 detections, which
\* classifies as GENERAL (average 1.0, maximum 3)
C7_Witness ==
    /\ ana.pc = "done"
    /\ Len(ana.face_counts) = 3
    /\ SumSeq(ana.face_counts) = 3
    /\ \E k \in 1..3 : ana.face_counts[k] = 3
    /\ ana.result.mode = GENERAL

\* C8 as stated: when none of the sample_frames > 0 sampled frames decodes,
\* classify returns GENERAL with detection count 0, motion score 0 and no
\* primary region.
C8_NoFrameGivesGeneral ==
    (ana.pc = "done" /\ ana.sample_frames > 0 /\ ana.face_counts = << >>) =>
        /\ ana.result.mode = GENERAL
        /\ ana.result.face_count = 0
        /\ ana.result.movement_score.num = 0
        /\ ana.result.primary_face = None

\* C9 as stated: detect never returns an empty list for a decoded frame
\* (every recorded detection count is at least 1), so classify on at least
\* one decoded frame has a primary region, also with no backend loaded.
C9_DetectNeverEmpty ==
    ana.pc \in {"sampling", "done"} =>
        /\ \A k \in 1..Len(ana.face_counts) : ana.face_counts[k] >= 1
        /\ (ana.pc = "done" /\ ana.face_counts # << >>)
              => ana.result.primary_face # None


(***************************************************************************)
(* No extrapolation outside the recorded keyframes                         *)
(***************************************************************************)

\* index of the last recorded keyframe of g
LastKeyframeIndex(g) == g.keyframe_indices[Len(g.keyframe_indices)]

\* C11: in the returned sequence every output index that is a recorded
\* keyframe index carries exactly that keyframe, and every output index
\* after the last recorded keyframe (also when a failed read ended the
\* sampling early) carries the last keyframe unchanged.
C11_NoExtrapolation ==
    (gen.pc = "done" /\ gen.keyframe_crops # << >>) =>
        /\ \A k \in 1..Len(gen.keyframe_indices) :
              gen.crop_frames[gen.keyframe_indices[k] + 1]
                  = gen.keyframe_crops[k]
        /\ \A f \in 0..(gen.total_frames - 1) :
              f > LastKeyframeIndex(gen) =>
                  gen.crop_frames[f + 1]
                      = gen.keyframe_crops[Len(gen.keyframe_crops)]

\* C11 witness: a failed read ended the sampling after two keyframes with
\* different centres, and output indices remain after the last keyframe
C11_Witness ==
    /\ gen.pc = "done"
    /\ gen.read = "failed"
    /\ Len(gen.keyframe_crops) >= 2
    /\ gen.keyframe_crops[Len(gen.keyframe_crops)].center_x
          # gen.keyframe_crops[Len(gen.keyframe_crops) - 1].center_x
    /\ gen.total_frames > LastKeyframeIndex(gen) + 2
    /\ gen.crop_frames[gen.total_frames]
          = gen.keyframe_crops[Len(gen.keyframe_crops)]


(***************************************************************************)
(* _generate_trajectory in TRACK mode over a range of source sizes         *)
(***************************************************************************)

MaxDim == 12

\* source sizes: every small size, and the usual landscape/portrait ones
SourceSizes ==
    ((1..MaxDim) \X (1..MaxDim))
        \cup {<<1920, 1080>>, <<1280, 720>>, <<400, 854>>, <<1080, 1920>>}

\* two-frame segments (two keyframes at 10 fps) of every source size
SizeSegments == { Segment(1000, 0, 2, sz[1], sz[2]) : sz \in SourceSizes }

NextCrop ==
    \/ \E seg \in SizeSegments, cb \in BOOLEAN : GenStart(seg, TRACK, cb)
    \/ /\ gen.pc = "loop"
       /\ \E frame \in FrameSet(gen.frame_width, gen.frame_height) :
             GenKeyframe(frame)
    \/ GenReadFail

SpecCrop == InitGen /\ [][NextCrop]_vars

\* the box w x h is 9:16 up to the truncation of the side derived from the
\* other: w = int(h * 9 / 16) or h = int(w * 16 / 9)
NineBySixteen(w, h) ==
    \/ (16 * w <= 9 * h /\ 9 * h < 16 * (w + 1))
    \/ (9 * h <= 16 * w /\ 16 * w < 9 * (h + 1))

\* the crop box of c fits the source frame of g and is 9:16
TrackBoxOk(g, c) ==
    /\ c.crop_width <= g.frame_width
    /\ c.crop_height <= g.frame_height
    /\ NineBySixteen(c.crop_width, c.crop_height)

\* C12: for every source size with width >= 1 and height >= 1 every TRACK
\* CropFrame (keyframe or interpolated) has crop_width <= width,
\* crop_height <= height and a 9:16 box up to the integer truncation of the
\* derived side, and the box is the same for every keyframe of the segment.
C12_TrackCropBox ==
    (gen.pc # "idle" /\ gen.mode = TRACK
        /\ gen.frame_width >= 1 /\ gen.frame_height >= 1) =>
        /\ \A k \in 1..Len(gen.keyframe_crops) :
              /\ TrackBoxOk(gen, gen.keyframe_crops[k])
              /\ gen.keyframe_crops[k].crop_width
                    = gen.keyframe_crops[1].crop_width
              /\ gen.keyframe_crops[k].crop_height
                    = gen.keyframe_crops[1].crop_height
        /\ gen.pc = "done" =>
              \A f \in 1..Len(gen.crop_frames) :
                  TrackBoxOk(gen, gen.crop_frames[f])

\* C12 witness: a source narrower than 9:16 of its height, so that the box
\* is clamped to the width and the height is derived, with two keyframes
C12_Witness ==
    /\ gen.pc = "done"
    /\ gen.mode = TRACK
    /\ Len(gen.keyframe_crops) = 2
    /\ gen.frame_width >= 1
    /\ gen.frame_width < TruncDiv(gen.frame_height * 9, 16)
    /\ gen.crop_frames[2].crop_width = gen.frame_width
    /\ gen.crop_frames[2].crop_height < gen.frame_height


(***************************************************************************)
(* Determinism of the stabilizer across reset                              *)
(***************************************************************************)

\* input sequences <<x, y, confidence>> fed after a reset: a far detection
\* that unlocks the stabilizer, then confident or unconfident detections
RawDetections ==
    { << <<1900, 1000, 90>>, b, c >> :
         b \in { <<1900, 1000, 90>>, <<60, 30, 30>> },
         c \in { <<1900, 1000, 90>>, <<990, 560, 90>> } }

SteadyTenths == 100

SteadySegment == Segment(3000, 0, SteadyTenths, 1920, 1080)

\* top-left corners (thousandths of the frame) of the single region: far
\* right, far left, straight below, just beyond lock_threshold of the
\* frame centre, inside lock_threshold, and at the centre
SteadyCorners ==
    { <<850, 300>>, <<0, 0>>, <<450, 800>>, <<480, 350>>, <<470, 400>>,
      <<450, 400>> }

SteadyFrames ==
    { [ mp |-> << MpBox(c[1], c[2], 100, 200, 90) >>, yolo |-> << >>,
        gray |-> 20 ] : c \in SteadyCorners }

AllModels == [face_detector |-> TRUE, yolo_model |-> TRUE, initialized |-> TRUE]

InitConverge ==
    /\ state = StabNew
    /\ initialized = FALSE
    /\ ret = << >>
    /\ ticks = 0
    /\ svc = AllModels
    /\ gen = IdleGen
    /\ ana = IdleAna
    /\ ServicesNew
    /\ UtilsNew

\* the frame shows its region where the previous keyframes showed it
SameDetection(frame) ==
    LET d == TrackDetection(svc, frame, gen.frame_width, gen.frame_height)
    IN  gen.keyframe_crops # << >> =>
            /\ d[1] * Scale = state.target_x
            /\ d[2] * Scale = state.target_y

NextConverge ==
    \/ GenStart(SteadySegment, TRACK, FALSE)
    \/ /\ gen.pc = "loop"
       /\ \E frame \in SteadyFrames :
             /\ SameDetection(frame)
             /\ GenKeyframe(frame)

\* the keyframe loop takes its next iteration (ticks counts the TRACK
\* keyframes taken)
KeyframeLoopRuns == gen.pc = "loop" /\ ticks' = ticks + 1

\* the call is made, and the keyframe loop is a for loop over reads that
\* succeed, so it runs on until the range is exhausted
SpecConverge ==
    /\ InitConverge
    /\ [][NextConverge]_vars
    /\ WF_vars(GenStart(SteadySegment, TRACK, FALSE))
    /\ WF_ticks(KeyframeLoopRuns)

\* squared distance (pixels) from the centre of crop c to the detected
\* point the stabilizer st is aimed at
CentreDistance2(c, st) ==
    (TruncDiv(st.target_x, Scale) - c.center_x)
        * (TruncDiv(st.target_x, Scale) - c.center_x)
  + (TruncDiv(st.target_y, Scale) - c.center_y)
        * (TruncDiv(st.target_y, Scale) - c.center_y)

\* a step records one more keyframe after at least one
NextKeyframe ==
    /\ gen.pc = "loop"
    /\ gen.keyframe_crops # << >>
    /\ Len(gen'.keyframe_crops) = Len(gen.keyframe_crops) + 1

\* the first keyframe has been taken and the detected point lies farther
\* than lock_threshold from the frame centre the stabilizer started at
FarFromCentre ==
    /\ gen.pc = "loop"
    /\ Len(gen.keyframe_crops) = 1
    /\ LET dx == state.target_x - FloorDiv(gen.frame_width, 2) * Scale
           dy == state.target_y - FloorDiv(gen.frame_height, 2) * Scale
       IN  dx * dx + dy * dy > config.lock_threshold * config.lock_threshold

\* the stabilizer is locked within deadzone of the detected point
RelockedAtTarget ==
    /\ state.locked
    /\ Distance2(state) < config.deadzone * config.deadzone

\* C14: with the same point P detected at confidence 0.9 on every
\* keyframe, the distance from the stabilized keyframe centre to P never
\* increases from one keyframe to the next, and whenever P lies farther
\* than lock_threshold from the frame centre the stabilizer eventually
\* (within the keyframes of the 10 s segment) is locked within deadzone
\* of P.
C14_ConvergesToFixedPoint ==
    /\ [][NextKeyframe =>
            CentreDistance2(gen'.keyframe_crops[Len(gen'.keyframe_crops)],
                            state')
              <= CentreDistance2(gen.keyframe_crops[Len(gen.keyframe_crops)],
                                 state)]_vars
    /\ (FarFromCentre ~> RelockedAtTarget)

\* C14 witness: the stabilizer left the frame centre for a point farther
\* than lock_threshold away and is locked again within deadzone of it
C14_Witness ==
    /\ gen.pc = "loop"
    /\ Len(gen.keyframe_crops) >= 2
    /\ RelockedAtTarget
    /\ LET dx == state.current_x - FloorDiv(gen.frame_width, 2) * Scale
           dy == state.current_y - FloorDiv(gen.frame_height, 2) * Scale
       IN  dx * dx + dy * dy > config.lock_threshold * config.lock_threshold


(***************************************************************************)
(* A failed read inside the keyframe loop of _generate_trajectory          *)
(***************************************************************************)

\* C15 as stated: a failed read skips only its own sample and every later
\* sample index is still attempted, so a call that recorded a keyframe
\* returns only after the loop index has run past the last sample position.
C15_LaterSamplesAttempted ==
    (gen.pc = "done" /\ gen.keyframe_crops # << >>)
        => gen.i >= gen.total_frames

\* a step in which a read of the keyframe loop fails
ReadFails == gen.pc = "loop" /\ gen'.read = "failed"

\* C15 amended: when the read at a keyframe sample index fails the keyframe
\* loop ends there: neither that sample nor any later sample index is
\* recorded, the keyframes recorded before it are kept, the stabilizer is
\* left as it was, and the call returns (nothing is raised).
C15_FailedReadEndsSampling ==
    [][ReadFails =>
          /\ gen'.pc = "done"
          /\ gen'.i = gen.i
          /\ gen'.keyframe_crops = gen.keyframe_crops
          /\ gen'.keyframe_indices = gen.keyframe_indices
          /\ state' = state]_vars

\* C15 witness: the read failed at a sample after the first, with at
\* least one later sample position left in the range
C15_Witness ==
    /\ gen.pc = "done"
    /\ gen.read = "failed"
    /\ gen.i > 0
    /\ gen.i + gen.skip_factor < gen.total_frames
    /\ Len(gen.keyframe_indices) * gen.skip_factor = gen.i


(***************************************************************************)
(* Failed reads inside the sampling loop of _do_scene_analysis             *)
(***************************************************************************)

\* number of reads of q that decoded
RECURSIVE Decoded(_)
Decoded(q) ==
    IF q = << >> THEN 0
    ELSE (IF Head(q) = "ok" THEN 1 ELSE 0) + Decoded(Tail(q))

\* a pass of the sampling loop whose read fails / decodes
FailedPass ==
    /\ ana.pc = "sampling"
    /\ Len(ana'.reads) = Len(ana.reads) + 1
    /\ ana'.reads[Len(ana'.reads)] = "failed"

DecodedPass ==
    /\ ana.pc = "sampling"
    /\ Len(ana'.reads) = Len(ana.reads) + 1
    /\ ana'.reads[Len(ana'.reads)] = "ok"

\* C16: whichever sample positions fail to read, classify never raises
\* and returns once all positions were visited; detection counts (hence
\* their average and maximum) exist for exactly the decoded samples, a
\* failed sample adds no count, no detection and no motion score and
\* leaves the remembered previous frame alone, and each decoded sample
\* after the first adds the motion between itself and the previous decoded
\* sample.
C16_FailedSamplesSkipped ==
    /\ [](ana.pc \in {"sampling", "done"} =>
            /\ Len(ana.reads) = ana.i
            /\ Len(ana.face_counts) = Decoded(ana.reads)
            /\ Len(ana.movement_scores) = Max2(0, Decoded(ana.reads) - 1)
            /\ (ana.pc = "done") = (ana.i = ana.sample_frames)
            /\ ana.pc = "done" =>
                  /\ ana.result.face_count
                        = TruncDiv(Mean(ana.face_counts).num,
                                   Mean(ana.face_counts).den)
                  /\ ana.result.movement_score = Mean(ana.movement_scores)
                  /\ (ana.result.mode = TRACK)
                        = IsTrack(Mean(ana.face_counts),
                                  MaxSeq(ana.face_counts)))
    /\ [][FailedPass =>
            /\ ana'.pc # "raised"
            /\ ana'.face_counts = ana.face_counts
            /\ ana'.all_detections = ana.all_detections
            /\ ana'.movement_scores = ana.movement_scores
            /\ ana'.prev_frame = ana.prev_frame]_vars
    /\ [][(DecodedPass /\ ana.prev_frame # << >>) =>
            ana'.movement_scores
              = Append(ana.movement_scores,
                       CalculateMovement(ana.prev_frame[1],
                                         ana'.prev_frame[1]))]_vars

\* C16 witness: the middle sample of three failed to read, and the motion
\* score recorded is the one between the first and the third sample
C16_Witness ==
    /\ ana.pc = "done"
    /\ ana.reads = <<"ok", "failed", "ok">>
    /\ Len(ana.face_counts) = 2
    /\ Len(ana.movement_scores) = 1
    /\ ana.movement_scores[1] > 0


(***************************************************************************)
(* JobQueue (services/job_queue.py) driven by its callers.                 *)
(* The lifespan handler calls configure and start at startup and stop at   *)
(* shutdown; they are not called while a stop() is still in flight.        *)
(***************************************************************************)

\* largest worker_count / max_pending a caller configures
MaxWorkers == 2

MaxPending == 2

\* the outcome of a call: what it returned or what it raised
Call(op, job_id, returned, raised, n) ==
    [ op |-> op, job_id |-> job_id, returned |-> returned,
      raised |-> raised, n |-> n ]

\* calls.last.n alternates with every call made
NextCall == IF calls.last.op = None THEN 1 ELSE 1 - calls.last.n

\* asyncio.Queue.full() of q._queue, whose maxsize is q._max_pending
QueueFullOffByOne(q) == Len(q._queue) > q._max_pending
QueueFull(q) == Len(q._queue) >= q._max_pending

\* configure(processor, worker_count, max_pending)
Configure(worker_count, max_pending) ==
    /\ calls.stop.pc = "idle"
    /\ jq' = IF jq._running THEN jq
             ELSE [ jq EXCEPT !._processor = "process_job",
                              !._worker_count = Max2(1, worker_count),
                              !._max_pending = Max2(1, max_pending),
                              !._queue = << >> ]
    /\ calls' = [calls EXCEPT
                   !.last = Call("configure", None, None, None, NextCall)]
    /\ UNCHANGED <<workers, jobs, croppers, sched, cropVars, utilVars, storeVars>>

\* the frame of a processor call that has not run yet
Called == [step |-> "called"]

\* a worker task awaiting self._queue.get()
WorkerTask == [pc |-> "get", job_id |-> None, last |-> None, frame |-> Called]

\* start()
Start ==
    /\ calls.stop.pc = "idle"
    /\ IF jq._running
       THEN /\ calls' = [calls EXCEPT
                   !.last = Call("start", None, None, None, NextCall)]
            /\ UNCHANGED <<jq, workers>>
       ELSE IF jq._processor = None
       THEN /\ calls' = [calls EXCEPT
                   !.last = Call("start", None, None, "RuntimeError",
                                 NextCall)]
            /\ UNCHANGED <<jq, workers>>
       ELSE /\ jq' = [jq EXCEPT !._running = TRUE]
            /\ workers' = [i \in 1..jq._worker_count |-> WorkerTask]
            /\ calls' = [calls EXCEPT
                   !.last = Call("start", None, None, None, NextCall)]
    /\ UNCHANGED <<jobs, croppers, sched, cropVars, utilVars, storeVars>>

\* enqueue(job_id) without the check of the queued and active ids
EnqueueOnNoDedup(q, job_id) ==
    IF ~q._running
    THEN [jq |-> q, returned |-> None, raised |-> "RuntimeError"]
    ELSE IF QueueFull(q)
    THEN [jq |-> q, returned |-> "False", raised |-> None]
    ELSE [ jq |-> [q EXCEPT !._queued_ids = @ \cup {job_id},
                            !._queue = Append(@, job_id)],
           returned |-> "True", raised |-> None ]

\* enqueue(job_id) on the queue object q: the queue afterwards and what
\* the call returns or raises
EnqueueOn(q, job_id) ==
    IF ~q._running
    THEN [jq |-> q, returned |-> None, raised |-> "RuntimeError"]
    ELSE IF job_id \in q._queued_ids \/ job_id \in q._active_ids
    THEN [jq |-> q, returned |-> "True", raised |-> None]
    ELSE IF QueueFull(q)
    THEN [jq |-> q, returned |-> "False", raised |-> None]
    ELSE [ jq |-> [q EXCEPT !._queued_ids = @ \cup {job_id},
                            !._queue = Append(@, job_id)],
           returned |-> "True", raised |-> None ]

\* await job_queue.enqueue(job_id)
Enqueue(job_id) ==
    /\ LET r == EnqueueOn(jq, job_id)
       IN  /\ jq' = r.jq
           /\ calls' = [calls EXCEPT
                  !.last = Call("enqueue", job_id, r.returned, r.raised,
                                NextCall)]
    /\ UNCHANGED <<workers, jobs, croppers, sched, cropVars, utilVars, storeVars>>

\* a worker that ends on a sentinel and leaves it in the queue
WorkerGetLeavesSentinel(w) ==
    /\ w \in DOMAIN workers
    /\ workers[w].pc = "get"
    /\ jq._queue # << >>
    /\ LET job_id == Head(jq._queue)
       IN  IF job_id = None
           THEN /\ jq' = jq
                /\ workers' = [workers EXCEPT ![w].pc = "exited"]
           ELSE /\ jq' = [jq EXCEPT !._queue = Tail(@),
                                    !._queued_ids = @ \ {job_id},
                                    !._active_ids = @ \cup {job_id}]
                /\ workers' = [workers EXCEPT
                                 ![w] = [pc |-> "run", job_id |-> job_id,
                                         last |-> workers[w].last,
                                         frame |-> Called]]
    /\ UNCHANGED <<jobs, croppers, calls, sched, cropVars, utilVars, storeVars>>

\* _worker_loop: self._queue.get() returns; a None sentinel ends the task,
\* a job id moves from the queued to the active set and the processor is
\* called
WorkerGet(w) ==
    /\ w \in DOMAIN workers
    /\ workers[w].pc = "get"
    /\ jq._queue # << >>
    /\ LET job_id == Head(jq._queue)
       IN  IF job_id = None
           THEN /\ jq' = [jq EXCEPT !._queue = Tail(@)]
                /\ workers' = [workers EXCEPT ![w].pc = "exited"]
           ELSE /\ jq' = [jq EXCEPT !._queue = Tail(@),
                                    !._queued_ids = @ \ {job_id},
                                    !._active_ids = @ \cup {job_id}]
                /\ workers' = [workers EXCEPT
                                 ![w] = [pc |-> "run", job_id |-> job_id,
                                         last |-> workers[w].last,
                                         frame |-> Called]]
    /\ UNCHANGED <<jobs, croppers, calls, sched, cropVars, utilVars, storeVars>>

\* a worker task that ends when the processor raises
AfterProcessorEndsWorker(w, outcome) ==
    /\ jq' = [jq EXCEPT !._active_ids = @ \ {workers[w].job_id}]
    /\ workers' = [workers EXCEPT
                     ![w] = [pc |-> IF outcome = "raised" THEN "exited"
                                    ELSE "get",
                             job_id |-> None,
                             last |-> outcome, frame |-> Called]]

\* _worker_loop after the processor call of worker w ended with `outcome`
\* ("returned", or "raised" which is caught and logged): the finally
\* clause, then back to self._queue.get()
AfterProcessor(w, outcome) ==
    /\ jq' = [jq EXCEPT !._active_ids = @ \ {workers[w].job_id}]
    /\ workers' = [workers EXCEPT
                     ![w] = [pc |-> "get", job_id |-> None,
                             last |-> outcome, frame |-> Called]]

\* the processor called by worker w returns
ProcessorReturns(w) ==
    /\ w \in DOMAIN workers
    /\ workers[w].pc = "run"
    /\ workers[w].frame = Called
    /\ AfterProcessor(w, "returned")
    /\ UNCHANGED <<jobs, croppers, calls, sched, cropVars, utilVars, storeVars>>

\* the processor called by worker w raises
ProcessorRaises(w) ==
    /\ w \in DOMAIN workers
    /\ workers[w].pc = "run"
    /\ workers[w].frame = Called
    /\ AfterProcessor(w, "raised")
    /\ UNCHANGED <<jobs, croppers, calls, sched, cropVars, utilVars, storeVars>>

\* stop() up to its first await: a stopped queue returns at once,
\* otherwise _running is cleared and one sentinel per worker is to be put
StopCall ==
    /\ calls.stop.pc = "idle"
    /\ IF ~jq._running
       THEN /\ calls' = [calls EXCEPT
                   !.last = Call("stop", None, None, None, NextCall)]
            /\ UNCHANGED jq
       ELSE /\ jq' = [jq EXCEPT !._running = FALSE]
            /\ calls' = [calls EXCEPT
                   !.last = Call("stop", None, None, None, NextCall),
                   !.stop = [pc |-> "putting", left |-> Len(workers)]]
    /\ UNCHANGED <<workers, jobs, croppers, sched, cropVars, utilVars, storeVars>>

\* stop(): await self._queue.put(None) completes once the queue has room
StopPut ==
    /\ calls.stop.pc = "putting"
    /\ calls.stop.left > 0
    /\ ~QueueFull(jq)
    /\ jq' = [jq EXCEPT !._queue = Append(@, None)]
    /\ calls' = [calls EXCEPT !.stop.left = @ - 1]
    /\ UNCHANGED <<workers, jobs, croppers, sched, cropVars, utilVars, storeVars>>

\* stop(): gather returns once every worker task has ended; the worker
\* list and both id sets are cleared
StopFinish ==
    /\ calls.stop.pc = "putting"
    /\ calls.stop.left = 0
    /\ \A w \in DOMAIN workers : workers[w].pc = "exited"
    /\ workers' = << >>
    /\ jq' = [jq EXCEPT !._queued_ids = {}, !._active_ids = {}]
    /\ calls' = [calls EXCEPT !.stop = [pc |-> "idle", left |-> 0]]
    /\ UNCHANGED <<jobs, croppers, sched, cropVars, utilVars, storeVars>>

InitQueue ==
    /\ state = StabNew
    /\ initialized = FALSE
    /\ ret = << >>
    /\ ticks = 0
    /\ svc = NoModels
    /\ gen = IdleGen
    /\ ana = IdleAna
    /\ ServicesNew
    /\ UtilsNew

NextQueue ==
    \/ \E wc \in 0..MaxWorkers, mp \in 0..MaxPending : Configure(wc, mp)
    \/ Start
    \/ \E job_id \in JobIds : Enqueue(job_id)
    \/ \E w \in 1..MaxWorkers : WorkerGet(w)
    \/ \E w \in 1..MaxWorkers : ProcessorReturns(w)
    \/ \E w \in 1..MaxWorkers : ProcessorRaises(w)
    \/ StopCall
    \/ StopPut
    \/ StopFinish

SpecQueue == InitQueue /\ [][NextQueue]_vars

(***************************************************************************)
(* Backpressure of the job queue                                           *)
(***************************************************************************)

\* a step is a call of enqueue(job_id)
EnqueueCalled ==
    /\ calls'.last.op = "enqueue"
    /\ calls.last.op # None => calls'.last.n # calls.last.n

\* nothing of the queue changed in the step
QueueUntouched == jq' = jq /\ workers' = workers

\* C19 as stated: never more than max_pending pending entries; every
\* enqueue on a full queue returns False and changes nothing; every enqueue
\* on a queue that is not running raises RuntimeError and changes nothing.
C19_BackpressureEveryEnqueue ==
    /\ [](Len(jq._queue) <= jq._max_pending)
    /\ [][(EnqueueCalled /\ jq._running /\ QueueFull(jq)) =>
            (calls'.last.returned = "False" /\ QueueUntouched)]_vars
    /\ [][(EnqueueCalled /\ ~jq._running) =>
            (calls'.last.raised = "RuntimeError" /\ QueueUntouched)]_vars

\* C19 amended: never more than max_pending pending entries; enqueue on a
\* full queue of an id that is neither queued nor active returns False and
\* changes nothing; every enqueue on a queue that is not running raises
\* RuntimeError and changes nothing.
C19_Backpressure ==
    /\ [](Len(jq._queue) <= jq._max_pending)
    /\ [][(EnqueueCalled /\ jq._running /\ QueueFull(jq)
             /\ calls'.last.job_id \notin jq._queued_ids
             /\ calls'.last.job_id \notin jq._active_ids) =>
            (calls'.last.returned = "False" /\ QueueUntouched)]_vars
    /\ [][(EnqueueCalled /\ ~jq._running) =>
            (calls'.last.raised = "RuntimeError" /\ QueueUntouched)]_vars

\* C19 witness: a running queue holding max_pending = 2 pending ids has
\* just refused a third id
C19_Witness ==
    /\ jq._running
    /\ jq._max_pending = 2
    /\ Len(jq._queue) = 2
    /\ calls.last.op = "enqueue"
    /\ calls.last.returned = "False"
    /\ calls.last.job_id \notin jq._queued_ids


(***************************************************************************)
(* routers/jobs.py: create_job and process_job, the processor the queue    *)
(* workers call.  jobs is jobs_db, croppers is the heap of                 *)
(* AICroppingService objects, workers[w].frame is the frame of the         *)
(* process_job call worker w awaits.                                       *)
(***************************************************************************)

\* most viral moments a detection returns
MaxClips == 2

\* keyframes a segment offers before its frames run out
MaxKeyframes == 2

\* times the server process is started again
MaxRestarts == 1

\* jobs submitted to the pipeline
PipelineJobs == {"j1", "j2"}

\* every clip is cut from a 1920 x 1080 source
PipelineSize == <<1920, 1080>>

\* the keyframes show one face, far right of or far left above the centre
PipelineFrames ==
    { [ mp |-> << MpBox(c[1], c[2], 100, 200, 90) >>, yolo |-> << >>,
        gray |-> 20 ] : c \in { <<850, 300>>, <<0, 0>> } }

\* Job(...): a new job is PENDING and has no clips
NewJob == [status |-> "pending", clips |-> 0, error_message |-> None]

\* AICroppingService(): no models loaded, a stabilizer never reset
NewCropper == [svc |-> NoModels, state |-> StabNew, initialized |-> FALSE]

\* a cropper no frame refers to any more
Collected == [svc |-> NoModels, state |-> StabNew, initialized |-> FALSE,
              collected |-> TRUE]

\* one service object kept for all calls
SharedCropperRef(heap) == 1

\* the reference of the object `AICroppingService()` allocates
NewCropperRef(heap) == Len(heap) + 1

\* the heap after the allocation that returned ref
Allocate(heap, ref) ==
    IF ref > Len(heap) THEN Append(heap, NewCropper)
    ELSE IF "collected" \in DOMAIN heap[ref]
         THEN [heap EXCEPT ![ref] = NewCropper]
         ELSE heap

\* the classification of the first segment, whatever the segment
FirstScene(f) == f.analyzed[1]

\* the `scene` variable process_job hands to generate_crop_trajectory
SceneArgument(f) == f.scene

\* lifespan startup: configure_job_queue, then job_queue.start()
LifespanConfigure ==
    /\ jq._processor = None
    /\ Configure(MaxWorkers, MaxPending)

LifespanStart ==
    /\ jq._processor # None
    /\ ~jq._running
    /\ Start

\* job_store.upsert_job(job): the row of the job is inserted or replaced
UpsertJob(st, job_id, job) == [st EXCEPT !.jobs[job_id] = job]

\* job_store.upsert_clip(clip) for one more clip of the job
UpsertClip(st, job_id) == [st EXCEPT !.clips[job_id] = @ + 1]

\* job_store.delete_job(job_id): the job row and the clip rows of the job
StoreDeleteJob(st, job_id) ==
    [st EXCEPT !.jobs[job_id] = Absent, !.clips[job_id] = 0]

\* create_job up to `await _persist_job(job)`: 429 when the queue cannot
\* accept, otherwise the job is stored under its fresh id in jobs_db,
\* clips_db and the database
CreateJobAccept(job_id) ==
    /\ job_id \notin calls.issued
    /\ IF QueueFull(jq)
       THEN /\ calls' = [calls EXCEPT
                           !.last = Call("create_job", job_id, None,
                                         "HTTP 429", NextCall)]
            /\ UNCHANGED <<jobs, storeVars>>
       ELSE /\ jobs' = [jobs EXCEPT ![job_id] = NewJob]
            /\ jobs_db' = jobs_db \cup {job_id}
            /\ clips_db' = [clips_db EXCEPT ![job_id] = 0]
            /\ job_store' = UpsertJob(job_store, job_id, NewJob)
            /\ calls' = [calls EXCEPT !.creating = @ \cup {job_id},
                                      !.issued = @ \cup {job_id}]
    /\ UNCHANGED <<jq, workers, croppers, sched, cropVars, utilVars>>

\* the rollback of create_job keeps the row of the job in the database
RollbackKeepsRow(st, job_id) == st

\* the rollback of create_job in the database
Rollback(st, job_id) == StoreDeleteJob(st, job_id)

\* create_job from `job_queue.enqueue(job.id)`: the job is rolled back
\* when the queue is not running (503) or is full (429)
CreateJobEnqueue(job_id) ==
    /\ job_id \in calls.creating
    /\ LET r == EnqueueOn(jq, job_id)
           raised == IF r.raised # None THEN "HTTP 503"
                     ELSE IF r.returned = "False" THEN "HTTP 429"
                     ELSE None
       IN  /\ jq' = r.jq
           /\ IF raised # None
              THEN /\ jobs' = [jobs EXCEPT ![job_id] = Absent]
                   /\ jobs_db' = jobs_db \ {job_id}
                   /\ clips_db' = [clips_db EXCEPT ![job_id] = NoKey]
                   /\ job_store' = Rollback(job_store, job_id)
              ELSE UNCHANGED <<jobs, storeVars>>
           /\ calls' = [calls EXCEPT
                          !.creating = @ \ {job_id},
                          !.last = Call("create_job", job_id,
                                        IF raised = None THEN "job"
                                        ELSE None,
                                        raised, NextCall)]
    /\ UNCHANGED <<workers, croppers, sched, cropVars, utilVars>>

\* delete_job(job_id): 404 for an id that is not in jobs_db, otherwise the
\* job leaves jobs_db, clips_db and the database
DeleteJob(job_id) ==
    /\ job_id \in calls.issued
    /\ IF job_id \notin jobs_db
       THEN /\ calls' = [calls EXCEPT
                           !.last = Call("delete_job", job_id, None,
                                         "HTTP 404", NextCall)]
            /\ UNCHANGED storeVars
       ELSE /\ jobs_db' = jobs_db \ {job_id}
            /\ clips_db' = [clips_db EXCEPT ![job_id] = NoKey]
            /\ job_store' = StoreDeleteJob(job_store, job_id)
            /\ calls' = [calls EXCEPT
                           !.deleted = @ \cup {job_id},
                           !.last = Call("delete_job", job_id, "deleted",
                                         None, NextCall)]
    /\ UNCHANGED <<jq, workers, jobs, croppers, sched, cropVars, utilVars>>

\* _IN_PROGRESS_STATUSES
InProgressStatuses ==
    {"downloading", "transcribing", "analyzing", "cropping", "rendering",
     "uploading"}

\* the Job initialize_job_state keeps in jobs_db for a stored row: a job
\* that was in progress is FAILED
Recovered(job) ==
    IF job.status \in InProgressStatuses
    THEN [job EXCEPT !.status = "failed",
                     !.error_message = "Job interrupted by server restart"]
    ELSE job

\* the server process ends, by shutdown or by a crash, and a new one runs
\* lifespan up to initialize_job_state: the queue, its workers and every
\* request are gone, jobs_db and clips_db are read from the database and
\* the interrupted jobs are stored as FAILED.  The other services are
\* constructed as they were.
Restart ==
    /\ calls.restarts < MaxRestarts
    /\ jq' = JobQueueNew
    /\ workers' = << >>
    /\ croppers' = << >>
    /\ jobs' = [j \in JobIds |->
                  IF job_store.jobs[j] = Absent THEN Absent
                  ELSE Recovered(job_store.jobs[j])]
    /\ jobs_db' = { j \in JobIds : job_store.jobs[j] # Absent }
    /\ clips_db' = [j \in JobIds |->
                      IF job_store.clips[j] > 0 THEN job_store.clips[j]
                      ELSE NoKey]
    /\ job_store' = [job_store EXCEPT !.jobs = jobs']
    /\ calls' = [ NoCalls EXCEPT !.issued = calls.issued,
                                 !.deleted = calls.deleted,
                                 !.restarts = calls.restarts + 1 ]
    /\ UNCHANGED <<sched, cropVars, utilVars>>

\* worker w awaits a process_job call that stands at `step`
AtStep(w, step) ==
    /\ w \in DOMAIN workers
    /\ workers[w].pc = "run"
    /\ workers[w].frame.step = step

\* process_job returns to _worker_loop: its cropper is garbage
ProcReturn(w) ==
    /\ AfterProcessor(w, "returned")
    /\ croppers' =
         IF workers[w].frame.step = "called" THEN croppers
         ELSE [croppers EXCEPT ![workers[w].frame.cropper] = Collected]

\* job.status = status; await _persist_job(job), on the Job object that
\* the process_job call of worker w holds
SetStatus(w, status) ==
    /\ jobs' = [jobs EXCEPT ![workers[w].job_id].status = status]
    /\ job_store' = UpsertJob(job_store, workers[w].job_id,
                              jobs'[workers[w].job_id])

\* the except and finally clauses of process_job: the job is FAILED and
\* stored, and process_job returns
Failed(w) ==
    /\ jobs' = [jobs EXCEPT
                  ![workers[w].job_id].status = "failed",
                  ![workers[w].job_id].error_message = "Exception"]
    /\ job_store' = UpsertJob(job_store, workers[w].job_id,
                              jobs'[workers[w].job_id])
    /\ ProcReturn(w)

\* process_job up to the download: a job that is not in jobs_db returns
\* at once, otherwise the services are built and the job is DOWNLOADING
ProcBegin(w) ==
    /\ AtStep(w, "called")
    /\ LET job_id == workers[w].job_id
           ref == NewCropperRef(croppers)
       IN  IF job_id \notin jobs_db
           THEN /\ ProcReturn(w)
                /\ UNCHANGED <<jobs, job_store>>
           ELSE /\ croppers' = Allocate(croppers, ref)
                /\ SetStatus(w, "downloading")
                /\ workers' = [workers EXCEPT
                     ![w].frame = [ step |-> "download", cropper |-> ref,
                                    total_clips |-> 0, index |-> 0,
                                    scene |-> [mode |-> None, segment |-> 0],
                                    analyzed |-> << >>,
                                    generated |-> << >>,
                                    started |-> FALSE, keyframes |-> 0 ]]
                /\ UNCHANGED jq
    /\ UNCHANGED <<calls, sched, cropVars, utilVars, jobs_db, clips_db>>

\* the download ended: the job is stored, then TRANSCRIBING
ProcDownloaded(w) ==
    /\ AtStep(w, "download")
    /\ SetStatus(w, "transcribing")
    /\ workers' = [workers EXCEPT ![w].frame.step = "transcribe"]
    /\ UNCHANGED <<jq, croppers, calls, sched, cropVars, utilVars,
                   jobs_db, clips_db>>

\* the transcription ended: the job is ANALYZING
ProcTranscribed(w) ==
    /\ AtStep(w, "transcribe")
    /\ SetStatus(w, "analyzing")
    /\ workers' = [workers EXCEPT ![w].frame.step = "detect"]
    /\ UNCHANGED <<jq, croppers, calls, sched, cropVars, utilVars,
                   jobs_db, clips_db>>

\* the frame and job status at the head of the clip loop for `index`:
\* CROPPING, analyze_scene called
ClipLoopHead(f, index) ==
    [f EXCEPT !.step = "classify", !.index = index,
              !.started = FALSE, !.keyframes = 0]

\* clips_db.setdefault(job_id, [])
SetDefault(db, job_id) ==
    IF db[job_id] = NoKey THEN [db EXCEPT ![job_id] = 0] ELSE db

\* detect_viral_moments returned total_clips >= 1 moments: the clip loop
\* starts
ProcMoments(w, total_clips) ==
    /\ AtStep(w, "detect")
    /\ clips_db' = SetDefault(clips_db, workers[w].job_id)
    /\ SetStatus(w, "cropping")
    /\ workers' = [workers EXCEPT
                     ![w].frame = ClipLoopHead(
                         [@ EXCEPT !.total_clips = total_clips], 1)]
    /\ UNCHANGED <<jq, croppers, calls, sched, cropVars, utilVars, jobs_db>>

\* analyze_scene returned `mode` for the segment: generate_crop_trajectory
\* is called with it and submitted to the executor
ProcClassified(w, mode) ==
    /\ AtStep(w, "classify")
    /\ LET f == workers[w].frame
           scene == [mode |-> mode, segment |-> f.index]
           g == [f EXCEPT !.scene = scene, !.analyzed = Append(@, scene)]
       IN  /\ workers' = [workers EXCEPT
                ![w].frame =
                    [g EXCEPT !.step = "generate",
                              !.generated =
                                  Append(@, [segment |-> g.index,
                                             scene_analysis |->
                                                 SceneArgument(g)])]]
           /\ croppers' = [croppers EXCEPT
                ![f.cropper].svc = EnsureInitialized(@, AllModels)]
    /\ UNCHANGED <<jq, jobs, calls, sched, cropVars, utilVars, storeVars>>

\* the generate call of worker w
GenerateCall(w) ==
    workers[w].frame.generated[Len(workers[w].frame.generated)]

\* _generate_trajectory starts in its executor thread: the stabilizer of
\* its service is reset to the frame centre
ProcGenReset(w) ==
    /\ AtStep(w, "generate")
    /\ ~workers[w].frame.started
    /\ LET c == workers[w].frame.cropper
       IN  croppers' = [croppers EXCEPT
             ![c].state = ResetOn(@, FloorDiv(PipelineSize[1], 2),
                                  FloorDiv(PipelineSize[2], 2)),
             ![c].initialized = TRUE]
    /\ workers' = [workers EXCEPT ![w].frame.started = TRUE]
    /\ UNCHANGED <<jq, jobs, calls, sched, cropVars, utilVars, storeVars>>

\* one pass of the keyframe loop on `frame`
ProcGenKeyframe(w, frame) ==
    /\ AtStep(w, "generate")
    /\ workers[w].frame.started
    /\ workers[w].frame.keyframes < MaxKeyframes
    /\ LET c == workers[w].frame.cropper
           r == TrackModeCrop(croppers[c].svc, frame, PipelineSize[1],
                              PipelineSize[2], croppers[c].state,
                              croppers[c].initialized)
       IN  croppers' =
             IF GenerateCall(w).scene_analysis.mode = TRACK
             THEN [croppers EXCEPT ![c].state = r.stab.state,
                                   ![c].initialized = r.stab.initialized]
             ELSE croppers
    /\ workers' = [workers EXCEPT ![w].frame.keyframes = @ + 1]
    /\ UNCHANGED <<jq, jobs, calls, sched, cropVars, utilVars, storeVars>>

\* the keyframe loop ended on a failed read or on the last sample:
\* generate_crop_trajectory returns and the job is RENDERING
ProcGenReturn(w) ==
    /\ AtStep(w, "generate")
    /\ workers[w].frame.started
    /\ SetStatus(w, "rendering")
    /\ workers' = [workers EXCEPT ![w].frame.step = "render"]
    /\ UNCHANGED <<jq, croppers, calls, sched, cropVars, utilVars,
                   jobs_db, clips_db>>

\* the clip is rendered and uploaded; clips_db[job_id].append(clip)
\* raises KeyError when the key is gone, and the job is FAILED; otherwise
\* the clip and the job are stored and the loop goes to the next moment
\* or ends
ProcClipDone(w) ==
    /\ AtStep(w, "render")
    /\ LET f == workers[w].frame
           job_id == workers[w].job_id
           stored == UpsertClip(job_store, job_id)
       IN  IF clips_db[job_id] = NoKey
           THEN /\ Failed(w)
                /\ UNCHANGED clips_db
           ELSE /\ clips_db' = [clips_db EXCEPT ![job_id] = @ + 1]
                /\ UNCHANGED <<jq, croppers>>
                /\ IF f.index < f.total_clips
                   THEN /\ jobs' = [jobs EXCEPT
                                      ![job_id].clips = @ + 1,
                                      ![job_id].status = "cropping"]
                        /\ workers' = [workers EXCEPT
                              ![w].frame = ClipLoopHead(f, f.index + 1)]
                   ELSE /\ jobs' = [jobs EXCEPT ![job_id].clips = @ + 1]
                        /\ workers' = [workers EXCEPT
                              ![w].frame.step = "finish"]
                /\ job_store' = UpsertJob(stored, job_id, jobs'[job_id])
    /\ UNCHANGED <<calls, sched, cropVars, utilVars, jobs_db>>

\* the job is COMPLETED and stored; the log line reads clips_db[job_id],
\* which raises KeyError when the key is gone, and the job is FAILED;
\* process_job returns
ProcComplete(w) ==
    /\ AtStep(w, "finish")
    /\ IF clips_db[workers[w].job_id] = NoKey
       THEN Failed(w)
       ELSE /\ SetStatus(w, "completed")
            /\ ProcReturn(w)
    /\ UNCHANGED <<calls, sched, cropVars, utilVars, jobs_db, clips_db>>

\* a step of process_job raises (a failed download, no viral moment, a
\* failed render ...): the job is FAILED and process_job returns
ProcFail(w) ==
    /\ w \in DOMAIN workers
    /\ workers[w].pc = "run"
    /\ workers[w].frame.step \in
         {"download", "transcribe", "detect", "classify", "generate",
          "render"}
    /\ Failed(w)
    /\ UNCHANGED <<calls, sched, cropVars, utilVars, jobs_db, clips_db>>

InitPipeline ==
    /\ state = StabNew
    /\ initialized = FALSE
    /\ ret = << >>
    /\ ticks = 0
    /\ svc = NoModels
    /\ gen = IdleGen
    /\ ana = IdleAna
    /\ ServicesNew
    /\ UtilsNew

NextPipeline ==
    \/ LifespanConfigure
    \/ LifespanStart
    \/ \E job_id \in PipelineJobs : CreateJobAccept(job_id)
    \/ \E job_id \in PipelineJobs : CreateJobEnqueue(job_id)
    \/ \E w \in 1..MaxWorkers : WorkerGet(w)
    \/ \E w \in 1..MaxWorkers : ProcBegin(w)
    \/ \E w \in 1..MaxWorkers : ProcDownloaded(w)
    \/ \E w \in 1..MaxWorkers : ProcTranscribed(w)
    \/ \E w \in 1..MaxWorkers, n \in 1..MaxClips : ProcMoments(w, n)
    \/ \E w \in 1..MaxWorkers, mode \in {TRACK, GENERAL} :
           ProcClassified(w, mode)
    \/ \E w \in 1..MaxWorkers : ProcGenReset(w)
    \/ \E w \in 1..MaxWorkers, frame \in PipelineFrames :
           ProcGenKeyframe(w, frame)
    \/ \E w \in 1..MaxWorkers : ProcGenReturn(w)
    \/ \E w \in 1..MaxWorkers : ProcClipDone(w)
    \/ \E w \in 1..MaxWorkers : ProcComplete(w)
    \/ \E w \in 1..MaxWorkers : ProcFail(w)

SpecPipeline == InitPipeline /\ [][NextPipeline]_vars


(***************************************************************************)
(* Claims on the pipeline                                                  *)
(***************************************************************************)

\* worker w awaits a generate_crop_trajectory call
InFlightGenerate(w) == AtStep(w, "generate")

\* the stabilizer of the service worker w generates on
StabilizerOf(w) ==
    [ state |-> croppers[workers[w].frame.cropper].state,
      initialized |-> croppers[workers[w].frame.cropper].initialized ]

\* a stabilizer just reset to the centre of the source frame
FreshAtCentre ==
    [ state |-> StabReset(FloorDiv(PipelineSize[1], 2),
                          FloorDiv(PipelineSize[2], 2)),
      initialized |-> TRUE ]

\* no two in-flight generate calls work on the same service object
DisjointStabilizers ==
    \A w1 \in DOMAIN workers, w2 \in DOMAIN workers :
        (w1 # w2 /\ InFlightGenerate(w1) /\ InFlightGenerate(w2))
            => workers[w1].frame.cropper # workers[w2].frame.cropper

\* a generate call that has sampled no keyframe yet holds a stabilizer
\* freshly reset to the frame centre
StartsFresh ==
    \A w \in DOMAIN workers :
        (InFlightGenerate(w) /\ workers[w].frame.started
           /\ workers[w].frame.keyframes = 0)
            => StabilizerOf(w) = FreshAtCentre

\* a step in which the generate call of worker w does nothing leaves the
\* stabilizer of that call as it was
OthersLeaveStabilizer ==
    \A w \in DOMAIN workers :
        (/\ InFlightGenerate(w)
         /\ w \in DOMAIN workers'
         /\ workers'[w] = workers[w])
            => StabilizerOf(w)' = StabilizerOf(w)

\* C17: under any interleaving of jobs run by several queue workers, no
\* two in-flight generate calls use the same stabilizer, no step of
\* another call changes the stabilizer of an in-flight generate call, and
\* every segment starts from a stabilizer freshly reset to the frame centre
C17_NoSharedStabilizer ==
    /\ [](DisjointStabilizers /\ StartsFresh)
    /\ [][OthersLeaveStabilizer]_vars

\* two workers generate at once, one has moved its stabilizer off the
\* centre in TRACK mode while the other starts the second segment of its
\* job from a fresh stabilizer after a tracked first segment
C17_Witness ==
    /\ DOMAIN workers = 1..2
    /\ InFlightGenerate(1)
    /\ InFlightGenerate(2)
    /\ workers[1].frame.keyframes = 0
    /\ workers[1].frame.started
    /\ workers[1].frame.index = 2
    /\ workers[1].frame.analyzed[1].mode = TRACK
    /\ workers[2].frame.keyframes >= 1
    /\ workers[2].frame.scene.mode = TRACK
    /\ StabilizerOf(2) # FreshAtCentre
    /\ StabilizerOf(1) = FreshAtCentre

\* C18: for every segment of a job the classification has returned before
\* generate for that segment is called, generate is called with exactly
\* that classification, and no generate call exists for a segment whose
\* classification is still running
C18_ClassifyBeforeGenerate ==
    \A w \in DOMAIN workers :
        (workers[w].pc = "run" /\ workers[w].frame.step # "called") =>
            LET f == workers[w].frame
            IN  /\ Len(f.generated) <= Len(f.analyzed)
                /\ \A k \in 1..Len(f.generated) :
                       /\ f.generated[k].segment = k
                       /\ f.analyzed[k].segment = k
                       /\ f.generated[k].scene_analysis = f.analyzed[k]
                /\ f.step = "classify" => Len(f.generated) = f.index - 1
                /\ f.step \in {"generate", "render"}
                       => /\ Len(f.generated) = f.index
                          /\ Len(f.analyzed) = f.index

\* the generate call for the second segment of a job runs, its
\* classification differs from that of the first segment
C18_Witness ==
    \E w \in DOMAIN workers :
        /\ InFlightGenerate(w)
        /\ workers[w].frame.started
        /\ workers[w].frame.index = 2
        /\ workers[w].frame.analyzed[1].mode = GENERAL
        /\ workers[w].frame.analyzed[2].mode = TRACK
        /\ GenerateCall(w).scene_analysis.mode = TRACK


(***************************************************************************)
(* services/schedule_service.py and models/scheduled_post.py               *)
(***************************************************************************)

\* last minute of the wall clock
MaxNow == 3

\* ScheduledPost.max_retries
MaxRetries == 3

\* minutes a retry is moved ahead
RetryDelay == 5

\* scheduled times a client asks for
ScheduleTimes == {0, 2}

\* what social_poster.post_to_all ends with
Outcomes == {"all_success", "some_failed", "exception"}

\* ScheduledPost(...) as create_schedule builds it
NewPost(scheduled_time) ==
    [ status |-> "pending", scheduled_time |-> scheduled_time,
      retry_count |-> 0, max_retries |-> MaxRetries,
      error_message |-> None ]

\* ScheduledPost.is_due at wall clock `now`
IsDue(post, now) == post.status = "pending" /\ now >= post.scheduled_time

\* ScheduledPost.can_retry
CanRetry(post) ==
    post.status = "failed" /\ post.retry_count < post.max_retries

\* _execute_post up to `await post_to_all`
MarkProcessing(post) == [post EXCEPT !.status = "processing"]

\* _execute_post once post_to_all ended with `outcome`
ExecuteOutcome(post, outcome, now) ==
    IF outcome = "exception"
    THEN [post EXCEPT !.status = "failed", !.error_message = "str(e)"]
    ELSE IF outcome = "all_success"
    THEN [post EXCEPT !.status = "completed"]
    ELSE IF CanRetry(post)
    THEN [post EXCEPT !.status = "retrying",
                      !.retry_count = @ + 1,
                      !.scheduled_time = now + RetryDelay]
    ELSE [post EXCEPT !.status = "failed",
                      !.error_message = "Max retries exceeded"]

\* the orders in which a list comprehension over a dict with these keys
\* can come out
Orders(ids) ==
    { q \in [1..Cardinality(ids) -> ids] :
        \A i \in DOMAIN q, j \in DOMAIN q : q[i] = q[j] => i = j }

\* create_schedule
CreateSchedule(post_id, scheduled_time) ==
    /\ sched._posts[post_id] = Absent
    /\ sched' = [sched EXCEPT !._posts[post_id] = NewPost(scheduled_time)]
    /\ UNCHANGED <<jq, workers, jobs, croppers, calls, cropVars, utilVars, storeVars>>

\* cancel_schedule on a post that can still be cancelled
CancelSchedule(post_id) ==
    /\ sched._posts[post_id].status \in {"pending", "retrying"}
    /\ sched' = [sched EXCEPT !._posts[post_id].status = "cancelled"]
    /\ calls' = [calls EXCEPT
                   !.last = Call("cancel_schedule", post_id, "True", None,
                                 NextCall)]
    /\ UNCHANGED <<jq, workers, jobs, croppers, cropVars, utilVars, storeVars>>

\* a minute passes
ClockTick ==
    /\ sched.now < MaxNow
    /\ sched' = [sched EXCEPT !.now = @ + 1]
    /\ UNCHANGED <<jq, workers, jobs, croppers, calls, cropVars, utilVars, storeVars>>

\* start_scheduler up to its first _process_due_posts
StartScheduler ==
    /\ ~sched._running
    /\ sched.loop.pc = "stopped"
    /\ sched' = [sched EXCEPT !._running = TRUE, !.loop.pc = "collect"]
    /\ UNCHANGED <<jq, workers, jobs, croppers, calls, cropVars, utilVars, storeVars>>

\* stop_scheduler
StopScheduler ==
    /\ sched._running
    /\ sched' = [sched EXCEPT !._running = FALSE]
    /\ UNCHANGED <<jq, workers, jobs, croppers, calls, cropVars, utilVars, storeVars>>

\* _process_due_posts collects the due posts
ProcessDuePosts ==
    /\ sched.loop.pc = "collect"
    /\ LET due == { p \in PostIds : /\ sched._posts[p] # Absent
                                    /\ IsDue(sched._posts[p], sched.now) }
       IN  \E due_posts \in Orders(due) :
               sched' = [sched EXCEPT
                           !.loop = [pc |-> IF due = {} THEN "sleep"
                                            ELSE "iterate",
                                     due_posts |-> due_posts]]
    /\ UNCHANGED <<jq, workers, jobs, croppers, calls, cropVars, utilVars, storeVars>>

\* the loop calls _execute_post on the next collected post
LoopExecuteBegin ==
    /\ sched.loop.pc = "iterate"
    /\ LET post_id == Head(sched.loop.due_posts)
       IN  sched' = [sched EXCEPT
                       !._posts[post_id] = MarkProcessing(@),
                       !.loop.pc = "posting"]
    /\ UNCHANGED <<jq, workers, jobs, croppers, calls, cropVars, utilVars, storeVars>>

\* post_to_all of the loop's _execute_post ends
LoopExecuteFinish(outcome) ==
    /\ sched.loop.pc = "posting"
    /\ LET post_id == Head(sched.loop.due_posts)
           rest == Tail(sched.loop.due_posts)
       IN  /\ sched' = [sched EXCEPT
                          !._posts[post_id] =
                              ExecuteOutcome(@, outcome, sched.now),
                          !.loop = [pc |-> IF rest = << >> THEN "sleep"
                                           ELSE "iterate",
                                    due_posts |-> rest]]
           /\ calls' = [calls EXCEPT
                          !.last = Call("_execute_post", post_id, outcome,
                                        None, NextCall)]
    /\ UNCHANGED <<jq, workers, jobs, croppers, cropVars, utilVars, storeVars>>

\* asyncio.sleep(check_interval) ends: the loop goes on while _running
LoopSleep ==
    /\ sched.loop.pc = "sleep"
    /\ sched' = [sched EXCEPT
                   !.loop.pc = IF sched._running THEN "collect"
                               ELSE "stopped"]
    /\ UNCHANGED <<jq, workers, jobs, croppers, calls, cropVars, utilVars, storeVars>>

\* execute_schedule_now: a background _execute_post task is added for a
\* PENDING or RETRYING post
ExecuteNow(post_id) ==
    /\ sched._posts[post_id].status \in {"pending", "retrying"}
    /\ sched.tasks[post_id] = "none"
    /\ sched' = [sched EXCEPT !.tasks[post_id] = "added"]
    /\ UNCHANGED <<jq, workers, jobs, croppers, calls, cropVars, utilVars, storeVars>>

\* the background task starts _execute_post
TaskExecuteBegin(post_id) ==
    /\ sched.tasks[post_id] = "added"
    /\ sched' = [sched EXCEPT !._posts[post_id] = MarkProcessing(@),
                              !.tasks[post_id] = "posting"]
    /\ UNCHANGED <<jq, workers, jobs, croppers, calls, cropVars, utilVars, storeVars>>

\* post_to_all of the background task ends
TaskExecuteFinish(post_id, outcome) ==
    /\ sched.tasks[post_id] = "posting"
    /\ sched' = [sched EXCEPT
                   !._posts[post_id] = ExecuteOutcome(@, outcome, sched.now),
                   !.tasks[post_id] = "none"]
    /\ calls' = [calls EXCEPT
                   !.last = Call("_execute_post", post_id, outcome, None,
                                 NextCall)]
    /\ UNCHANGED <<jq, workers, jobs, croppers, cropVars, utilVars, storeVars>>

InitSched == InitPipeline

NextSched ==
    \/ \E post_id \in PostIds, t \in ScheduleTimes :
           CreateSchedule(post_id, t)
    \/ \E post_id \in PostIds : CancelSchedule(post_id)
    \/ ClockTick
    \/ StartScheduler
    \/ StopScheduler
    \/ ProcessDuePosts
    \/ LoopExecuteBegin
    \/ \E outcome \in Outcomes : LoopExecuteFinish(outcome)
    \/ LoopSleep
    \/ \E post_id \in PostIds : ExecuteNow(post_id)
    \/ \E post_id \in PostIds : TaskExecuteBegin(post_id)
    \/ \E post_id \in PostIds, outcome \in Outcomes :
           TaskExecuteFinish(post_id, outcome)

SpecSched == InitSched /\ [][NextSched]_vars

\* an _execute_post of post p ends in this step with a failed platform
\* result
FailedResult(p) ==
    /\ calls' # calls
    /\ calls'.last.op = "_execute_post"
    /\ calls'.last.job_id = p
    /\ calls'.last.returned = "some_failed"

\* C20: an execution that yields a failed platform result while
\* retry_count < max_retries puts the post in RETRYING with retry_count
\* incremented and scheduled_time five minutes ahead; 'Max retries
\* exceeded' is set only once max_retries retries are used
C20_RetriesOnFailure ==
    [][\A p \in PostIds :
          (FailedResult(p)
             /\ sched._posts[p].retry_count < sched._posts[p].max_retries)
          => /\ sched'._posts[p].status = "retrying"
             /\ sched'._posts[p].retry_count
                    = sched._posts[p].retry_count + 1
             /\ sched'._posts[p].scheduled_time = sched.now + RetryDelay
             /\ sched'._posts[p].error_message # "Max retries exceeded"
      ]_vars


(***************************************************************************)
(* utils/retry.py: CircuitBreaker                                          *)
(***************************************************************************)

\* most wrapped calls in flight at once
MaxInflight == 3

\* last second of the breaker's clock
MaxBreakerNow == 4

\* most failures counted
MaxFailures == 4

\* failure_threshold and recovery_timeout (seconds) the breaker is built with
Thresholds == {1, 2}

Timeouts == {1, 2}

\* the `state` property: an OPEN breaker whose recovery_timeout has
\* elapsed becomes HALF_OPEN when it is read
ReadState(b) ==
    IF b._state = "OPEN"
         /\ b.now - b._last_failure_time >= b.recovery_timeout
    THEN [b EXCEPT !._state = "HALF_OPEN"]
    ELSE b

\* record_success
RecordSuccess(b) == [b EXCEPT !._failure_count = 0, !._state = "CLOSED"]

\* record_failure
RecordFailure(b) ==
    LET c == [b EXCEPT !._failure_count = @ + 1,
                       !._last_failure_time = b.now]
    IN  IF c._failure_count >= c.failure_threshold
        THEN [c EXCEPT !._state = "OPEN"]
        ELSE c

\* the wrapper up to `await func(...)`: can_execute reads the state; an
\* OPEN breaker raises ViralClipError, otherwise func is invoked
WrapperCall ==
    /\ breaker.inflight < MaxInflight
    /\ LET b == ReadState(breaker)
       IN  breaker' =
             IF b._state = "OPEN"
             THEN [b EXCEPT !.last = [op |-> "call", found |-> b._state,
                                      invoked |-> FALSE,
                                      raised |-> "CIRCUIT_BREAKER_OPEN"]]
             ELSE [b EXCEPT !.inflight = @ + 1,
                            !.last = [op |-> "call", found |-> b._state,
                                      invoked |-> TRUE, raised |-> None]]
    /\ UNCHANGED <<cropVars, serviceVars, storeVars, ws, retry>>

\* func returns
WrappedReturns ==
    /\ breaker.inflight > 0
    /\ breaker' = [RecordSuccess(breaker) EXCEPT
                     !.inflight = @ - 1, !.last = [op |-> "success"]]
    /\ UNCHANGED <<cropVars, serviceVars, storeVars, ws, retry>>

\* func raises an expected_exception
WrappedRaises ==
    /\ breaker.inflight > 0
    /\ breaker._failure_count < MaxFailures
    /\ breaker' = [RecordFailure(breaker) EXCEPT
                     !.inflight = @ - 1, !.last = [op |-> "failure"]]
    /\ UNCHANGED <<cropVars, serviceVars, storeVars, ws, retry>>

\* func raises something that is no expected_exception (a cancellation):
\* nothing is recorded
WrappedCancelled ==
    /\ breaker.inflight > 0
    /\ breaker' = [breaker EXCEPT
                     !.inflight = @ - 1, !.last = [op |-> "cancelled"]]
    /\ UNCHANGED <<cropVars, serviceVars, storeVars, ws, retry>>

\* a second passes
BreakerTick ==
    /\ breaker.now < MaxBreakerNow
    /\ breaker' = [breaker EXCEPT !.now = @ + 1, !.last = [op |-> "tick"]]
    /\ UNCHANGED <<cropVars, serviceVars, storeVars, ws, retry>>

InitBreaker ==
    /\ state = StabNew
    /\ initialized = FALSE
    /\ ret = << >>
    /\ ticks = 0
    /\ svc = NoModels
    /\ gen = IdleGen
    /\ ana = IdleAna
    /\ ServicesNew
    /\ breaker \in { CircuitBreaker(t, r) : t \in Thresholds, r \in Timeouts }
    /\ ws = WebsocketNew
    /\ retry = NoRetryCall

NextBreaker ==
    \/ WrapperCall
    \/ WrappedReturns
    \/ WrappedRaises
    \/ WrappedCancelled
    \/ BreakerTick

SpecBreaker == InitBreaker /\ [][NextBreaker]_vars

\* the state a caller would read from breaker b
ObservedState(b) == ReadState(b)._state

\* the step goes from state `from` to state `to`
Transition(from, to) ==
    ObservedState(breaker) = from /\ ObservedState(breaker') = to

\* C21: the breaker only goes CLOSED -> OPEN on the failure that brings
\* the failure count to failure_threshold, OPEN -> HALF_OPEN once
\* recovery_timeout has elapsed, HALF_OPEN -> CLOSED on success and
\* HALF_OPEN -> OPEN on failure; no call that finds the breaker OPEN
\* invokes the wrapped function, and OPEN is never left for CLOSED
C21_BreakerTransitions ==
    [][/\ ObservedState(breaker') # ObservedState(breaker) =>
            \/ /\ Transition("CLOSED", "OPEN")
               /\ breaker'.last.op = "failure"
               /\ breaker'._failure_count = breaker.failure_threshold
            \/ /\ Transition("OPEN", "HALF_OPEN")
               /\ breaker'.now - breaker'._last_failure_time
                      >= breaker.recovery_timeout
            \/ /\ Transition("HALF_OPEN", "CLOSED")
               /\ breaker'.last.op = "success"
            \/ /\ Transition("HALF_OPEN", "OPEN")
               /\ breaker'.last.op = "failure"
       /\ (breaker'.last.op = "call" /\ breaker'.last.found = "OPEN")
              => ~breaker'.last.invoked
       /\ ~Transition("OPEN", "CLOSED")
      ]_vars


(***************************************************************************)
(* Further properties of HeavyTripodStabilizer                             *)
(***************************************************************************)

\* the step is update(p, c) on the stabilizer as it stands
IsUpdate(p, c) ==
    /\ ticks' = ticks + 1
    /\ state' = StabUpdate(state, initialized, p[1], p[2], c).state

\* C22: an update of an initialized stabilizer with confidence > 0.5 makes
\* the detection the target and zeroes frames_since_detection; with
\* confidence <= 0.5 it leaves the target as it was and adds exactly 1 to
\* frames_since_detection
C22_ConfidenceGate ==
    [][\A p \in DetectPoints, c \in Confidences :
          (initialized /\ IsUpdate(p, c)) =>
              IF c > 50
              THEN /\ state'.target_x = p[1] * Scale
                   /\ state'.target_y = p[2] * Scale
                   /\ state'.frames_since_detection = 0
              ELSE /\ state'.target_x = state.target_x
                   /\ state'.target_y = state.target_y
                   /\ state'.frames_since_detection
                          = state.frames_since_detection + 1
      ]_vars

\* two updates at confidence 0.5 in a row have left alone a target that
\* a confident update had set away from the current position
C22_Witness ==
    /\ initialized
    /\ state.frames_since_detection = 2
    /\ ~state.locked
    /\ state.target_x # state.current_x


\* the history after appending the position held after the step to the
\* history held before it
AppendedHistory ==
    LET h == Append(state.position_history,
                    <<state'.current_x, state'.current_y>>)
    IN  IF Len(h) > HistoryCap THEN Tail(h) ELSE h

\* C23: every update call, the first one on a never-reset stabilizer and
\* the early returns of the deadzone and locked branches included, appends
\* exactly one entry to the position history: the position after the call
C23_EveryUpdateAppends ==
    [][ticks' = ticks + 1 => state'.position_history = AppendedHistory]_vars


\* updates of the tracking run before the history is looked at: two
\* short of the cap
WarmUpdates == HistoryCap - 2

\* the point detected on the n-th update of the tracking run: it jumps
\* between two far corners every 40 frames
WarmPoint(n) ==
    IF (n \div 40) % 2 = 0 THEN <<1900, 1000>> ELSE <<60, 30>>

\* a stabilizer just reset to the centre of a 1920 x 1080 frame
InitHistory ==
    /\ state = StabReset(960, 540)
    /\ initialized = TRUE
    /\ ret = << >>
    /\ ticks = 0
    /\ svc = NoModels
    /\ gen = IdleGen
    /\ ana = IdleAna
    /\ ServicesNew
    /\ UtilsNew

\* stabilizer.update(p, confidence) in a long run: the first WarmUpdates
\* calls track WarmPoint confidently, the MaxTicks calls after them are
\* free
LongUpdate(p, confidence) ==
    /\ ticks < WarmUpdates + MaxTicks
    /\ ticks < WarmUpdates => (p = WarmPoint(ticks) /\ confidence = 90)
    /\ LET r == StabUpdate(state, initialized, p[1], p[2], confidence)
       IN  /\ state' = r.state
           /\ initialized' = r.initialized
           /\ ret' = r.ret
    /\ ticks' = ticks + 1
    /\ UNCHANGED <<svc, gen, ana, serviceVars, utilVars, storeVars>>

\* stabilizer.reset(p) once the tracking run is over
LongReset(p) ==
    /\ ticks >= WarmUpdates
    /\ Reset(p)

NextHistory ==
    \/ \E p \in DetectPoints, c \in Confidences : LongUpdate(p, c)
    \/ \E p \in ResetPoints : LongReset(p)

SpecHistory == InitHistory /\ [][NextHistory]_vars

\* the step is a reset
IsReset == ticks' = ticks /\ state' # state

\* C24: the position history never holds more than 300 entries; an append
\* to a full history evicts the oldest entry and keeps the others in
\* their order; reset empties the history
C24_HistoryBounded ==
    /\ [](Len(state.position_history) <= HistoryCap)
    /\ [][(ticks' = ticks + 1 /\ Len(state.position_history) = HistoryCap)
            => state'.position_history =
                   Append(Tail(state.position_history),
                          <<state'.current_x, state'.current_y>>)]_vars
    /\ [][IsReset => state'.position_history = << >>]_vars

\* the history is full after 302 updates, two of which evicted an entry;
\* its oldest entry is no longer the centre the run started from and
\* differs from its newest
C24_Witness ==
    /\ Len(state.position_history) = HistoryCap
    /\ ticks = HistoryCap + 2
    /\ state.position_history[1] # <<960 * Scale, 540 * Scale>>
    /\ state.position_history[1] # state.position_history[HistoryCap]

\* the stabilizer does not move
Still(st) == st.velocity_x = 0 /\ st.velocity_y = 0

\* C25: in every reachable stabilizer state locked implies velocity (0, 0);
\* a step that changes the velocity ends unlocked or, at re-lock, with
\* velocity zero, so every unlock starts from zero velocity
C25_LockedMeansStill ==
    /\ [](state.locked => Still(state))
    /\ [][(state.locked /\ ~state'.locked) => Still(state)]_vars
    /\ [][(state'.velocity_x # state.velocity_x
             \/ state'.velocity_y # state.velocity_y)
          => (~state'.locked \/ Still(state'))]_vars

\* the stabilizer was unlocked, moved off the frame centre and has locked
\* again, at rest, at the fourth keyframe or later
C25_Witness ==
    /\ gen.pc = "loop"
    /\ Len(gen.keyframe_crops) >= 4
    /\ state.locked
    /\ Still(state)
    /\ state.current_x # FloorDiv(gen.frame_width, 2) * Scale
    /\ Len(state.position_history) >= 4


(***************************************************************************)
(* The keyframe sampling step of _generate_trajectory                      *)
(***************************************************************************)

\* source frame rates (hundredths of a frame per second)
SkipRates == {500, 1000, 1500, 2397, 2500, 2997, 3000, 5000, 5994, 6000}

\* the first second of a source of each rate
SkipSegments == { Segment(fps, 0, 10, 1920, 1080) : fps \in SkipRates }

\* two seconds at 10 fps: 20 keyframes
LongSegment == Segment(1000, 0, 20, 1920, 1080)

NextSkip ==
    \/ \E seg \in SkipSegments \cup {LongSegment}, cb \in BOOLEAN :
           GenStart(seg, GENERAL, cb)
    \/ /\ gen.pc = "loop"
       /\ \E frame \in FrameSet(gen.frame_width, gen.frame_height) :
             GenKeyframe(frame)
    \/ GenReadFail

SpecSkip == InitGen /\ [][NextSkip]_vars

\* the samples are taken at 0, skip, 2 * skip, ... below total_frames:
\* the k-th recorded keyframe has index (k - 1) * skip, the next attempt
\* is at the index after the last one, and a loop no read of which failed
\* has tried every such index
SampledAtMultiples(g) ==
    /\ \A k \in 1..Len(g.keyframe_indices) :
           /\ g.keyframe_indices[k] = (k - 1) * g.skip_factor
           /\ g.keyframe_indices[k] < g.total_frames
    /\ g.pc = "loop" =>
           /\ g.i = Len(g.keyframe_indices) * g.skip_factor
           /\ g.i < g.total_frames
    /\ (g.pc = "done" /\ g.read # "failed") =>
           Len(g.keyframe_indices) * g.skip_factor >= g.total_frames

\* C26 as stated: the sampling step is max(1, round(fps / 10)) and the
\* keyframes are attempted at 0, skip, 2 * skip, ... below total_frames
C26_SkipIsRounded ==
    gen.pc # "idle" =>
        /\ gen.skip_factor = SkipFactorRounded(gen.fps)
        /\ SampledAtMultiples(gen)

\* C26 amended: the sampling step is max(1, int(fps / 10)), fps / 10 cut
\* to its integer part, and the keyframes are attempted at 0, skip,
\* 2 * skip, ... below total_frames
C26_SkipIsTruncated ==
    gen.pc # "idle" =>
        /\ gen.skip_factor >= 1
        /\ IF gen.fps < 1000 THEN gen.skip_factor = 1
           ELSE /\ gen.skip_factor * 1000 <= gen.fps
                /\ gen.fps < (gen.skip_factor + 1) * 1000
        /\ SampledAtMultiples(gen)

\* a second of 29.97 fps video was sampled to its end at every second
\* frame: 15 keyframes, the last at index 28
C26_Witness ==
    /\ gen.pc = "done"
    /\ gen.read = "ok"
    /\ gen.fps = 2997
    /\ gen.skip_factor = 2
    /\ Len(gen.keyframe_indices) = 15
    /\ gen.keyframe_indices[15] = 28


(***************************************************************************)
(* The primary region of a classification                                  *)
(***************************************************************************)

\* frames for the primary region: those of FrameSet and two frames that
\* show one face each, a wide one and a far-left tall one, of the area and
\* confidence of the tall face of FrameSet
PrimaryFrames(width, height) ==
    FrameSet(width, height)
        \cup { [ mp |-> << MpBox(300, 300, 200, 100, 90) >>, yolo |-> << >>,
                 gray |-> 30 ],
               [ mp |-> << MpBox(50, 300, 100, 200, 90) >>, yolo |-> << >>,
                 gray |-> 30 ] }

NextPrimary ==
    \/ \E n \in 0..MaxSamples : AnaStart(n, AllModels)
    \/ \E frame \in PrimaryFrames(AnalysisFrameSize[1], AnalysisFrameSize[2]) :
           AnaSample(frame)
    \/ AnaReadFail

SpecPrimary == InitClassify /\ [][NextPrimary]_vars

\* C27: the primary region of a finished classification is a sampled
\* detection whose area * confidence is maximal over all sampled
\* detections, the earliest-sampled one among those of maximal score; it
\* is null exactly when no detection was sampled
C27_PrimaryIsFirstMaximal ==
    ana.pc = "done" =>
        IF ana.all_detections = << >>
        THEN ana.result.primary_face = None
        ELSE \E k \in 1..Len(ana.all_detections) :
                 /\ ana.result.primary_face = ana.all_detections[k]
                 /\ \A j \in 1..Len(ana.all_detections) :
                        Score(ana.all_detections[j])
                            <= Score(ana.all_detections[k])
                 /\ \A j \in 1..(k - 1) :
                        Score(ana.all_detections[j])
                            < Score(ana.all_detections[k])

\* three different faces of the same maximal score were sampled after a
\* smaller one and the primary region is the first of the three
C27_Witness ==
    /\ ana.pc = "done"
    /\ Len(ana.all_detections) >= 4
    /\ ana.result.primary_face = ana.all_detections[2]
    /\ \E j \in 3..Len(ana.all_detections) :
           /\ Score(ana.all_detections[j]) = Score(ana.all_detections[2])
           /\ ana.all_detections[j] # ana.all_detections[2]
    /\ Score(ana.all_detections[1]) < Score(ana.all_detections[2])


(***************************************************************************)
(* GENERAL and TRACK keyframes                                             *)
(***************************************************************************)

\* the full-frame crop centred in a width x height frame
FullFrame(c, width, height) ==
    /\ c.center_x = width \div 2
    /\ c.center_y = height \div 2
    /\ c.crop_width = width
    /\ c.crop_height = height
    /\ c.mode = GENERAL

\* C28: every CropFrame of a GENERAL segment, keyframe or interpolated, is
\* the full frame centred at (width // 2, height // 2) with strategy
\* GENERAL; the detector and Stabilizer.update are never called, and the
\* stabilizer stays exactly as the reset at the start of the segment left it
C28_GeneralIsFullFrame ==
    (gen.pc # "idle" /\ gen.mode = GENERAL) =>
        /\ \A k \in 1..Len(gen.keyframe_crops) :
               FullFrame(gen.keyframe_crops[k], gen.frame_width,
                         gen.frame_height)
        /\ gen.pc = "done" =>
               \A f \in 1..Len(gen.crop_frames) :
                   FullFrame(gen.crop_frames[f], gen.frame_width,
                             gen.frame_height)
        /\ gen.detect_calls = 0
        /\ ticks = 0
        /\ initialized
        /\ state = StabReset(gen.frame_width \div 2, gen.frame_height \div 2)

\* a GENERAL segment sampled at two keyframes or more by a service whose
\* detectors are loaded returned a frame for every output index
C28_Witness ==
    /\ gen.pc = "done"
    /\ gen.mode = GENERAL
    /\ svc.face_detector
    /\ Len(gen.keyframe_crops) >= 2
    /\ Len(gen.crop_frames) = gen.total_frames
    /\ gen.total_frames > Len(gen.keyframe_crops)
    /\ gen.frame_width = 1920


\* the step is a TRACK keyframe on `frame`
IsTrackKeyframe(frame) ==
    /\ gen.pc = "loop"
    /\ gen.mode = TRACK
    /\ Len(gen'.keyframe_crops) = Len(gen.keyframe_crops) + 1
    /\ state' = TrackModeCrop(svc, frame, gen.frame_width, gen.frame_height,
                              state, initialized).stab.state

\* what the stabilizer is fed for `frame`: the centre and confidence of a
\* region of largest area, the frame centre at 0.3 when there is none
FeedsLargestOrCentre(frame, width, height) ==
    LET faces == DetectFaces(svc, frame, width, height)
        d == TrackDetection(svc, frame, width, height)
    IN  IF faces = << >>
        THEN d = << width \div 2, height \div 2, 30 >>
        ELSE \E k \in 1..Len(faces) :
                 /\ \A j \in 1..Len(faces) : Area(faces[j]) <= Area(faces[k])
                 /\ d = << faces[k].x + faces[k].width \div 2,
                           faces[k].y + faces[k].height \div 2,
                           faces[k].confidence >>

\* C29: every TRACK keyframe feeds the stabilizer the centre and the
\* confidence of the largest detected region, or the frame centre at
\* confidence 0.3 when nothing is detected; a keyframe without detections
\* is one more frame since detection and leaves the target where it was
C29_TrackInput ==
    /\ [](gen.pc = "loop" =>
            \A frame \in FrameSet(gen.frame_width, gen.frame_height) :
                FeedsLargestOrCentre(frame, gen.frame_width,
                                     gen.frame_height))
    /\ [][gen.pc = "loop" =>
            \A frame \in FrameSet(gen.frame_width, gen.frame_height) :
              (/\ IsTrackKeyframe(frame)
               /\ DetectFaces(svc, frame, gen.frame_width, gen.frame_height)
                      = << >>)
              => /\ state'.target_x = state.target_x
                 /\ state'.target_y = state.target_y
                 /\ state'.frames_since_detection
                        = state.frames_since_detection + 1
                 /\ ticks' = ticks + 1]_vars

\* a keyframe that showed nobody came after one that showed a face: the
\* target is still at the face, away from the frame centre
C29_Witness ==
    /\ gen.pc # "idle"
    /\ gen.mode = TRACK
    /\ Len(gen.keyframe_crops) >= 2
    /\ state.frames_since_detection >= 1
    /\ state.target_x # (gen.frame_width \div 2) * Scale


(***************************************************************************)
(* Progress reports of generate_crop_trajectory                            *)
(***************************************************************************)

\* report a is at most report b, as percentages
AtMost(a, b) == a.num * b.den <= b.num * a.den

\* the report is below 100 percent
Below100(a) == a.num < 100 * a.den

\* the reports made inside the keyframe loop: one for every tenth
\* keyframe recorded, i / total_frames * 100 of that keyframe, below 100
\* and in non-decreasing order; they follow the reports of the call start
LoopReports(g, first) ==
    LET n == Len(g.keyframe_crops) \div 10
    IN  /\ Len(g.progress) = first + n + (IF g.pc = "done" THEN 1 ELSE 0)
        /\ \A k \in 1..n :
               /\ g.progress[first + k]
                      = Report(g.keyframe_indices[10 * k] * 100,
                               g.total_frames)
               /\ Below100(g.progress[first + k])
               /\ k > 1 => AtMost(g.progress[first + k - 1],
                                  g.progress[first + k])

\* one final report of 100, after all others
FinalReport(g) ==
    g.pc = "done" =>
        /\ g.progress # << >>
        /\ g.progress[Len(g.progress)] = Report(100, 1)
        /\ \A k \in 1..(Len(g.progress) - 1) : Below100(g.progress[k])

\* C30 as stated: whatever the call, a report is emitted exactly when the
\* number of recorded keyframes becomes a multiple of 10, the percentages
\* of the loop are non-decreasing and below 100, and exactly one final
\* report of 100 is emitted on every path
C30_ProgressReported ==
    gen.pc # "idle" =>
        /\ LoopReports(gen, IF gen.progress_callback THEN 1 ELSE 0)
        /\ FinalReport(gen)

\* C30 amended: with a progress callback the call reports 0 at its start,
\* then reports exactly when the number of recorded keyframes becomes a
\* multiple of 10, non-decreasing and below 100, and makes exactly one
\* final report of 100 on every path; without a callback it reports
\* nothing
C30_ProgressWithCallback ==
    gen.pc # "idle" =>
        IF gen.progress_callback
        THEN /\ gen.progress # << >>
             /\ gen.progress[1] = Report(0, 1)
             /\ LoopReports(gen, 1)
             /\ FinalReport(gen)
        ELSE gen.progress = << >>

\* 20 keyframes were recorded with a callback: reports of 0, 45, 95 and
\* 100 percent
C30_Witness ==
    /\ gen.pc = "done"
    /\ gen.progress_callback
    /\ Len(gen.keyframe_crops) = 20
    /\ gen.progress = << Report(0, 1), Report(900, 20), Report(1900, 20),
                         Report(100, 1) >>


(***************************************************************************)
(* The fan-out of routers/websocket.py                                     *)
(***************************************************************************)

\* _MAX_QUEUE_SIZE
MaxQueueSize == 500

\* the broadcasts dispatched after the first queue is one short of full
MaxBroadcasts == 3

\* the callbacks scheduled on the loop and not yet run
MaxCallbacks == 2

\* the messages one client takes from its queue
MaxReceived == 2

\* the broadcasts of the filling phase: the first client connects and
\* does not read until its queue is one short of full
FillBroadcasts == MaxQueueSize - 1

\* a full queue keeps its oldest message and loses the new one
EnqueueMessageDropNewest(queue, payload) ==
    IF Len(queue) >= MaxQueueSize THEN queue ELSE Append(queue, payload)

\* _enqueue_message: a full queue gives up its oldest message, then
\* put_nowait, whose QueueFull is swallowed
EnqueueMessage(queue, payload) ==
    LET q == IF Len(queue) >= MaxQueueSize THEN Tail(queue) ELSE queue
    IN  IF Len(q) >= MaxQueueSize THEN q ELSE Append(q, payload)

\* _broadcast_payload: every queue of connection_queues gets the payload
BroadcastPayload(w, payload) ==
    [ w EXCEPT !.clients =
        [ c \in Clients |->
            IF w.clients[c].status = "open"
            THEN [ w.clients[c] EXCEPT
                     !.queue = EnqueueMessage(@, payload) ]
            ELSE w.clients[c] ] ]

\* _dispatch_broadcast called with or without a running loop in the
\* calling thread: scheduled on the broadcast loop when that is set, run
\* at once on the caller's loop otherwise, skipped when there is none
DispatchBroadcast(w, in_loop) ==
    LET payload == w.serial + 1
        sent == [ w EXCEPT !.serial = payload ]
    IN  IF w._broadcast_loop
        THEN [ sent EXCEPT !.callbacks = Append(@, payload) ]
        ELSE IF in_loop THEN BroadcastPayload(sent, payload) ELSE sent

\* while the first queue fills only the first client is connected, it
\* does not read, and every broadcast is dispatched from the loop after
\* the client has connected
Filling == ws.serial < FillBroadcasts

\* lifespan: set_broadcast_loop(asyncio.get_running_loop())
SetBroadcastLoop ==
    /\ ~ws._broadcast_loop
    /\ ws' = [ws EXCEPT !._broadcast_loop = TRUE]
    /\ UNCHANGED <<cropVars, serviceVars, storeVars, breaker, retry>>

\* websocket_endpoint up to the creation of its two tasks
Connect(c) ==
    /\ ws.clients[c].status = "new"
    /\ Filling => c = "c1"
    /\ ws' = [ws EXCEPT !.clients[c].status = "open"]
    /\ UNCHANGED <<cropVars, serviceVars, storeVars, breaker, retry>>

\* broadcast_progress / broadcast_log / broadcast_to_all
Broadcast(in_loop) ==
    /\ ws.serial < FillBroadcasts + MaxBroadcasts
    /\ Len(ws.callbacks) < MaxCallbacks
    /\ Filling => in_loop /\ ws.clients["c1"].status = "open"
    /\ ws' = DispatchBroadcast(ws, in_loop)
    /\ UNCHANGED <<cropVars, serviceVars, storeVars, breaker, retry>>

\* the loop runs the oldest callback of call_soon_threadsafe
RunCallback ==
    /\ ws.callbacks # << >>
    /\ ws' = BroadcastPayload([ws EXCEPT !.callbacks = Tail(@)],
                              Head(ws.callbacks))
    /\ UNCHANGED <<cropVars, serviceVars, storeVars, breaker, retry>>

\* send_updates: payload = await queue.get()
SendGet(c) ==
    /\ ~Filling
    /\ ws.clients[c].status = "open"
    /\ ws.clients[c].holding = << >>
    /\ ws.clients[c].queue # << >>
    /\ Len(ws.clients[c].received) < MaxReceived
    /\ ws' = [ws EXCEPT !.clients[c].holding = << Head(ws.clients[c].queue) >>,
                        !.clients[c].queue = Tail(@)]
    /\ UNCHANGED <<cropVars, serviceVars, storeVars, breaker, retry>>

\* send_updates: await websocket.send_json(payload) reaches the client
SendJson(c) ==
    /\ ws.clients[c].status = "open"
    /\ ws.clients[c].holding # << >>
    /\ ws' = [ws EXCEPT !.clients[c].received = @ \o ws.clients[c].holding,
                        !.clients[c].holding = << >>]
    /\ UNCHANGED <<cropVars, serviceVars, storeVars, breaker, retry>>

\* the client goes away: one of the two tasks ends, the other is
\* cancelled, and the finally block drops the connection and its queue
Disconnect(c) ==
    /\ ~Filling
    /\ ws.clients[c].status = "open"
    /\ ws' = [ws EXCEPT !.clients[c].status = "closed",
                        !.clients[c].queue = << >>,
                        !.clients[c].holding = << >>]
    /\ UNCHANGED <<cropVars, serviceVars, storeVars, breaker, retry>>

InitFanout == InitQueue

NextFanout ==
    \/ SetBroadcastLoop
    \/ \E c \in Clients : Connect(c)
    \/ \E in_loop \in BOOLEAN : Broadcast(in_loop)
    \/ RunCallback
    \/ \E c \in Clients : SendGet(c)
    \/ \E c \in Clients : SendJson(c)
    \/ \E c \in Clients : Disconnect(c)

SpecFanout == InitFanout /\ [][NextFanout]_vars

\* the payloads are in broadcast order: strictly increasing serials
Increasing(q) == \A k \in 1..(Len(q) - 1) : q[k] < q[k + 1]

\* all that a client got or may still get: what it received, the message
\* send_updates holds, its queue
Stream(c) ==
    ws.clients[c].received \o ws.clients[c].holding \o ws.clients[c].queue

\* a step that runs _broadcast_payload with the payload
Broadcasts(payload) ==
    \/ /\ ws.callbacks # << >>
       /\ payload = Head(ws.callbacks)
       /\ ws' = BroadcastPayload([ws EXCEPT !.callbacks = Tail(@)], payload)
    \/ /\ ~ws._broadcast_loop
       /\ payload = ws.serial + 1
       /\ ws' = DispatchBroadcast(ws, TRUE)

\* C31: no client queue ever holds more than 500 messages; what a client
\* receives is a subsequence of the broadcasts, in broadcast order; a
\* broadcast to a full queue drops the queue's oldest message and
\* enqueues the new one; a dispatch never waits for a queue (it only
\* stops at the bound on the broadcasts of the model)
C31_FanoutBounded ==
    /\ [](\A c \in Clients :
             /\ Len(ws.clients[c].queue) <= MaxQueueSize
             /\ Increasing(Stream(c))
             /\ \A k \in 1..Len(Stream(c)) : Stream(c)[k] \in 1..ws.serial)
    /\ [](~Filling /\ ws.serial < FillBroadcasts + MaxBroadcasts
             /\ Len(ws.callbacks) < MaxCallbacks
          => ENABLED Broadcast(TRUE) /\ ENABLED Broadcast(FALSE))
    /\ [][\A payload \in 1..(FillBroadcasts + MaxBroadcasts) :
            Broadcasts(payload) =>
              \A c \in Clients :
                 ws.clients[c].status = "open"
                    /\ Len(ws.clients[c].queue) = MaxQueueSize
                 => ws'.clients[c].queue
                       = Append(Tail(ws.clients[c].queue), payload)]_vars

\* the first client's queue was full, lost its oldest messages to later
\* broadcasts, and the client then received one of the survivors
C31_Witness ==
    /\ ws.clients["c1"].received # << >>
    /\ ws.clients["c1"].received[1] > 1
    /\ Len(ws.clients["c1"].queue) = MaxQueueSize - 1
    /\ ws.clients["c2"].received # << >>


(***************************************************************************)
(* De-duplication, worker survival and shutdown of the job queue           *)
(***************************************************************************)

\* the positions of the queue that hold job_id
QueuedAt(job_id) == { k \in 1..Len(jq._queue) : jq._queue[k] = job_id }

\* the workers whose processor call for job_id is running
RunningOn(job_id) ==
    { w \in DOMAIN workers :
        workers[w].pc = "run" /\ workers[w].job_id = job_id }

\* C32: no job id is twice among the queued entries, none is processed by
\* two workers at the same time, none is both in the queued and in the
\* active set; the queued set holds the ids of the queue and the active
\* set the ids being processed; enqueue of an id that is queued or active
\* returns True and adds no entry
C32_Deduplication ==
    /\ [](\A job_id \in JobIds :
             /\ Cardinality(QueuedAt(job_id)) <= 1
             /\ Cardinality(RunningOn(job_id)) <= 1
             /\ ~(job_id \in jq._queued_ids /\ job_id \in jq._active_ids)
             /\ QueuedAt(job_id) # {} => job_id \in jq._queued_ids
             /\ RunningOn(job_id) # {} => job_id \in jq._active_ids)
    /\ [][(EnqueueCalled /\ jq._running
             /\ (calls'.last.job_id \in jq._queued_ids
                   \/ calls'.last.job_id \in jq._active_ids)) =>
            (calls'.last.returned = "True" /\ QueueUntouched)]_vars

\* j1 is being processed, j2 is queued, and the last call, an enqueue of
\* j1, returned True
C32_Witness ==
    /\ jq._running
    /\ RunningOn("j1") # {}
    /\ QueuedAt("j2") # {}
    /\ QueuedAt("j1") = {}
    /\ calls.last.op = "enqueue"
    /\ calls.last.job_id = "j1"
    /\ calls.last.returned = "True"


\* worker w's processor call ends by raising in this step
RaisesIn(w) ==
    /\ w \in DOMAIN workers
    /\ w \in DOMAIN workers'
    /\ workers[w].pc = "run"
    /\ workers'[w].pc # "run"
    /\ workers'[w].last = "raised"

\* C35: when the processor raises for a job the id leaves the active set
\* and the worker is back at queue.get(); a worker task ends only while
\* stop() is in flight; the active ids are never more than worker_count
C35_WorkerSurvivesException ==
    /\ [][\A w \in 1..MaxWorkers :
            RaisesIn(w) =>
              /\ workers[w].job_id \notin jq'._active_ids
              /\ workers'[w].pc = "get"]_vars
    /\ [](\A w \in DOMAIN workers :
             workers[w].pc = "exited" => calls.stop.pc = "putting")
    /\ [](Cardinality(jq._active_ids) <= jq._worker_count)

\* a worker whose last processor call raised is processing a later entry
\* while the other worker is busy too
C35_Witness ==
    /\ Len(workers) = 2
    /\ workers[1].last = "raised"
    /\ workers[1].pc = "run"
    /\ workers[2].pc = "run"
    /\ Cardinality(jq._active_ids) = 2


(***************************************************************************)
(* Shutdown of the job queue                                               *)
(***************************************************************************)

\* the workers take what the queue holds, every processor call ends, and
\* stop() goes on when it can
SpecQueueFair ==
    /\ SpecQueue
    /\ WF_vars(\E w \in 1..MaxWorkers : WorkerGet(w))
    /\ WF_vars(\E w \in 1..MaxWorkers :
                  ProcessorReturns(w) \/ ProcessorRaises(w))
    /\ WF_vars(StopPut)
    /\ WF_vars(StopFinish)

\* the worker tasks that have ended
Exited == { w \in DOMAIN workers : workers[w].pc = "exited" }

\* the sentinels in the queue
Sentinels == QueuedAt(None)

\* a job id waits in the queue
JobWaiting == \E job_id \in JobIds : QueuedAt(job_id) # {}

\* a processor call is running
JobRunning == \E w \in DOMAIN workers : workers[w].pc = "run"

\* stop() returns in this step
StopReturns == calls.stop.pc = "putting" /\ calls'.stop.pc = "idle"

\* one sentinel per worker: those still to put, those in the queue and
\* those consumed by the ended workers add up to the number of workers
OneSentinelEach ==
    IF calls.stop.pc = "putting"
    THEN calls.stop.left + Cardinality(Sentinels) + Cardinality(Exited)
            = Len(workers)
    ELSE Sentinels = {} /\ Exited = {}

\* when stop() returns every worker has ended, nothing is waiting or
\* running, and afterwards there are no workers and no queued or active id
StopLeavesNothing ==
    [][StopReturns =>
          /\ Exited = DOMAIN workers
          /\ jq._queue = << >>
          /\ workers' = << >>
          /\ jq'._queue = << >>
          /\ jq'._queued_ids = {}
          /\ jq'._active_ids = {}]_vars

\* C36 as stated: stop() terminates, every job enqueued before stop() is
\* processed before any worker exits, each worker consumes exactly one
\* sentinel, and stop() leaves no worker and no queued or active id
C36_ShutdownProcessedFirst ==
    /\ calls.stop.pc = "putting" ~> calls.stop.pc = "idle"
    /\ [](Exited # {} => ~JobWaiting /\ ~JobRunning)
    /\ []OneSentinelEach
    /\ StopLeavesNothing

\* C36 amended: stop() terminates, every job enqueued before stop() has
\* been taken from the queue by a worker before any worker exits and has
\* been processed when stop() returns, each worker consumes exactly one
\* sentinel, and stop() leaves no worker and no queued or active id
C36_Shutdown ==
    /\ calls.stop.pc = "putting" ~> calls.stop.pc = "idle"
    /\ [](Exited # {} => ~JobWaiting)
    /\ []OneSentinelEach
    /\ StopLeavesNothing

\* stop() was called with a job waiting; one worker has ended on its
\* sentinel while the other still processes that job
C36_Witness ==
    /\ calls.stop.pc = "putting"
    /\ Len(workers) = 2
    /\ Cardinality(Exited) = 1
    /\ JobRunning
    /\ jq._queue = << None >>


(***************************************************************************)
(* Cancelled scheduled posts                                               *)
(***************************************************************************)

\* C37: once cancel_schedule has set a post to CANCELLED its status never
\* changes again, so _execute_post, which starts by setting PROCESSING,
\* is never run for it
C37_CancelledNeverPosted ==
    [][\A post_id \in PostIds :
          sched._posts[post_id].status = "cancelled"
             => sched'._posts[post_id].status = "cancelled"]_vars


(***************************************************************************)
(* The life of a job: create_job, process_job, delete_job and restarts     *)
(***************************************************************************)

InitJobs == InitPipeline

\* lifespan startup with the setting max_pending_jobs = 1
JobsConfigure ==
    /\ jq._processor = None
    /\ Configure(MaxWorkers, 1)

\* the steps of worker w: it takes an entry and runs process_job on it,
\* each clip in GENERAL mode
WorkerRuns(w) ==
    \/ WorkerGet(w)
    \/ ProcBegin(w)
    \/ ProcDownloaded(w)
    \/ ProcTranscribed(w)
    \/ \E n \in 1..MaxClips : ProcMoments(w, n)
    \/ ProcClassified(w, GENERAL)
    \/ ProcGenReset(w)
    \/ ProcGenReturn(w)
    \/ ProcClipDone(w)
    \/ ProcComplete(w)
    \/ ProcFail(w)

NextJobs ==
    \/ JobsConfigure
    \/ LifespanStart
    \/ \E job_id \in PipelineJobs : CreateJobAccept(job_id)
    \/ \E job_id \in PipelineJobs : CreateJobEnqueue(job_id)
    \/ \E job_id \in PipelineJobs : DeleteJob(job_id)
    \/ Restart
    \/ \E w \in 1..MaxWorkers : WorkerRuns(w)

SpecJobs == InitJobs /\ [][NextJobs]_vars

\* the server starts, requests go on, and every worker is fair
SpecJobsFair ==
    /\ SpecJobs
    /\ WF_vars(JobsConfigure)
    /\ WF_vars(LifespanStart)
    /\ WF_vars(\E job_id \in PipelineJobs : CreateJobEnqueue(job_id))
    /\ \A w \in 1..MaxWorkers : WF_vars(WorkerRuns(w))

\* create_job has just returned the job
Accepted(job_id) ==
    /\ calls.last.op = "create_job"
    /\ calls.last.job_id = job_id
    /\ calls.last.returned = "job"

\* COMPLETED or FAILED
Terminal(job_id) == jobs[job_id].status \in {"completed", "failed"}

\* C33: every job accepted by create_job eventually is COMPLETED or
\* FAILED, unless it is deleted, whatever step raises and whenever the
\* server restarts
C33_AcceptedJobsTerminate ==
    \A job_id \in PipelineJobs :
        Accepted(job_id) ~> (Terminal(job_id) \/ job_id \in calls.deleted)

\* C34: once delete_job(job_id) has returned, the job is in neither
\* jobs_db nor the database, and stays so
C34_DeletionIsFinal ==
    \A job_id \in PipelineJobs :
        job_id \in calls.deleted =>
            /\ job_id \notin jobs_db
            /\ job_store.jobs[job_id] = Absent

\* create_job rejects job_id in this step, after it had created the job
Rejects(job_id) ==
    /\ job_id \in calls.creating
    /\ calls'.last.op = "create_job"
    /\ calls'.last.job_id = job_id
    /\ calls'.last.raised \in {"HTTP 429", "HTTP 503"}
    /\ job_id \notin calls'.creating

\* C38: when create_job rejects a request after the job was created, the
\* job is in neither jobs_db, clips_db nor the database, and no entry for
\* it is in the queue
C38_CreateJobRollback ==
    [][\A job_id \in PipelineJobs :
          Rejects(job_id) =>
             /\ job_id \notin jobs_db'
             /\ clips_db'[job_id] = NoKey
             /\ job_store'.jobs[job_id] = Absent
             /\ job_store'.clips[job_id] = 0
             /\ \A k \in 1..Len(jq'._queue) : jq'._queue[k] # job_id
             /\ job_id \notin jq'._queued_ids]_vars

\* a request was rejected with 429 at enqueue time, on a running queue
\* that another request had filled meanwhile, and nothing of its job is
\* left
C38_Witness ==
    /\ calls.last.op = "create_job"
    /\ calls.last.raised = "HTTP 429"
    /\ calls.last.job_id \in calls.issued
    /\ jq._running
    /\ calls.last.job_id \notin jobs_db
    /\ job_store.jobs[calls.last.job_id] = Absent


(***************************************************************************)
(* utils/retry.py: the wrapper of retry_async                              *)
(***************************************************************************)

\* the largest max_retries a decorator is given
MaxRetryBudget == 3

\* what an attempt of the wrapped function does: it returns, or raises a
\* retryable exception, a RateLimitError with retry_after (retryable
\* too), or an exception outside retryable_exceptions
AttemptOutcomes == {"returns", "retryable", "rate_limit", "other"}

\* a retry is made after the last attempt too
AttemptsLeftOneMore(attempt, max_retries) == attempt <= max_retries

\* "if attempt < max_retries"
AttemptsLeft(attempt, max_retries) == attempt < max_retries

\* range(max_retries + 1)
Attempts(max_retries) == 0..max_retries

\* the wrapper is called: the loop starts with attempt 0 and awaits
\* func; with no attempt to make it raises last_exception, which is None
RetryCall(max_retries, on_retry) ==
    /\ retry.pc = "idle"
    /\ retry' =
         IF 0 \in Attempts(max_retries)
         THEN [ pc |-> "attempt", max_retries |-> max_retries,
                on_retry |-> on_retry, attempt |-> 0, invoked |-> 1,
                on_retry_calls |-> << >>, outcomes |-> << >>,
                result |-> << >> ]
         ELSE [ pc |-> "raised", max_retries |-> max_retries,
                on_retry |-> on_retry, attempt |-> 0, invoked |-> 0,
                on_retry_calls |-> << >>, outcomes |-> << >>,
                result |-> << [kind |-> "TypeError", attempt |-> 0] >> ]
    /\ UNCHANGED <<cropVars, serviceVars, storeVars, breaker, ws>>

\* the awaited func returns: the wrapper returns its value, here the
\* number of the attempt
FuncReturns ==
    /\ retry.pc = "attempt"
    /\ retry' = [retry EXCEPT !.pc = "returned",
                              !.outcomes = Append(@, "returns"),
                              !.result = << retry.attempt >>]
    /\ UNCHANGED <<cropVars, serviceVars, storeVars, breaker, ws>>

\* the awaited func raises: a retryable exception with attempts left
\* calls on_retry(e, attempt + 1) and sleeps, one on the last attempt is
\* raised again, any other exception is raised at once
FuncRaises(kind) ==
    /\ retry.pc = "attempt"
    /\ LET e == [kind |-> kind, attempt |-> retry.attempt]
           r == [retry EXCEPT !.outcomes = Append(@, kind)]
       IN  retry' =
             IF kind = "other"
             THEN [r EXCEPT !.pc = "raised", !.result = << e >>]
             ELSE IF AttemptsLeft(retry.attempt, retry.max_retries)
             THEN [r EXCEPT !.pc = "sleep",
                            !.on_retry_calls =
                                IF retry.on_retry
                                THEN Append(@, retry.attempt + 1)
                                ELSE @]
             ELSE [r EXCEPT !.pc = "raised", !.result = << e >>]
    /\ UNCHANGED <<cropVars, serviceVars, storeVars, breaker, ws>>

\* asyncio.sleep(delay) ends: the next attempt, if the range has one,
\* awaits func
SleepEnds ==
    /\ retry.pc = "sleep"
    /\ retry' =
         IF retry.attempt + 1 \in Attempts(retry.max_retries)
         THEN [retry EXCEPT !.pc = "attempt", !.attempt = @ + 1,
                            !.invoked = @ + 1]
         ELSE [retry EXCEPT !.pc = "raised",
                            !.result = << [kind |-> "last_exception",
                                           attempt |-> retry.attempt] >>]
    /\ UNCHANGED <<cropVars, serviceVars, storeVars, breaker, ws>>

InitRetry == InitQueue

NextRetry ==
    \/ \E max_retries \in 0..MaxRetryBudget, on_retry \in BOOLEAN :
           RetryCall(max_retries, on_retry)
    \/ FuncReturns
    \/ \E kind \in AttemptOutcomes \ {"returns"} : FuncRaises(kind)
    \/ SleepEnds

SpecRetry == InitRetry /\ [][NextRetry]_vars

\* every attempt so far raised a retryable exception
AllRetryable ==
    \A k \in 1..Len(retry.outcomes) :
        retry.outcomes[k] \in {"retryable", "rate_limit"}

\* C39: func is invoked at most max_retries + 1 times per call; the
\* first result is returned at once; when every attempt raises a
\* retryable exception the last one is raised again after exactly
\* max_retries + 1 attempts and on_retry, when given, was called exactly
\* max_retries times, with 1, 2, ...; a non-retryable exception is raised
\* after the attempt that raised it, with no further attempt
C39_RetryAttemptBound ==
    retry.pc # "idle" =>
      /\ retry.invoked <= retry.max_retries + 1
      /\ retry.pc \in {"returned", "raised"}
           => retry.invoked = Len(retry.outcomes)
      /\ retry.pc = "returned" =>
           /\ retry.outcomes[Len(retry.outcomes)] = "returns"
           /\ \A k \in 1..(Len(retry.outcomes) - 1) :
                  retry.outcomes[k] # "returns"
           /\ retry.result = << Len(retry.outcomes) - 1 >>
      /\ retry.pc = "raised" /\ AllRetryable =>
           /\ retry.invoked = retry.max_retries + 1
           /\ retry.result =
                << [ kind |-> retry.outcomes[retry.invoked],
                     attempt |-> retry.max_retries ] >>
           /\ retry.on_retry_calls =
                IF retry.on_retry
                THEN [k \in 1..retry.max_retries |-> k]
                ELSE << >>
      /\ retry.pc = "raised" /\ ~AllRetryable =>
           /\ retry.outcomes[retry.invoked] = "other"
           /\ retry.result =
                << [kind |-> "other", attempt |-> retry.invoked - 1] >>

\* max_retries = 2 and three attempts raised retryable exceptions: the
\* third was raised again after on_retry was called twice
C39_Witness ==
    /\ retry.pc = "raised"
    /\ retry.max_retries = 2
    /\ retry.on_retry
    /\ retry.invoked = 3
    /\ retry.outcomes = << "retryable", "rate_limit", "retryable" >>
    /\ retry.on_retry_calls = << 1, 2 >>

=============================================================================
